---- MODULE Spec2Model ----
(***************************************************************************)
(* State-machine model of the M68HC05 microcontroller core                 *)
(* (src/src/devices/cpu/m6805/m68hc05.cpp): on-chip timer, COP watchdogs,  *)
(* interrupt service and the register handlers that drive them.            *)
(*                                                                         *)
(* Registers are modelled as naturals of the width the code gives them;    *)
(* every handler is one action, named after the member function it models. *)
(***************************************************************************)
EXTENDS Integers, Naturals, Sequences, FiniteSets, TLC

(***************************************************************************)
(* Bit arithmetic on naturals (C++ &, |, ~, BIT, shifts).                  *)
(***************************************************************************)
RECURSIVE And(_, _)
And(a, b) ==
    IF a = 0 \/ b = 0 THEN 0
    ELSE (a % 2) * (b % 2) + 2 * And(a \div 2, b \div 2)

Or(a, b) == a + b - And(a, b)

Xor(a, b) == a + b - 2 * And(a, b)

Not8(a) == \hff - And(a, \hff)

Not16(a) == \hffff - And(a, \hffff)

BIT(x, n) == (x \div (2 ^ n)) % 2

u8(x) == x % (2 ^ 8)

u16(x) == x % (2 ^ 16)

(***************************************************************************)
(* Bounds of the model: how many handler calls a behaviour makes, and the  *)
(* cycle budget the scheduler hands to the core.                           *)
(***************************************************************************)
MaxStepsTimer == 6

MaxStepsCop == 5

MaxStepsInt == 6

MaxStepsDbg == 4

MaxStepsCount == 5

MaxStepsPort == 4

(***************************************************************************)
(* Program constants.                                                      *)
(***************************************************************************)
M68HC05_VECTOR_TIMER == \hfff8

M68HC05_VECTOR_INT == \hfffa

M68HC05_VECTOR_SWI == \hfffc

M68HC05_VECTOR_RESET == \hfffe

SP_MASK == \h00ff

SP_LOW == \h00c0

PORT_COUNT == 4

\* input line numbers and the pending-interrupt bits made from them
M6805_IRQ_LINE == 0

M68HC05_IRQ_LINE == M6805_IRQ_LINE + 0

M68HC05_TCAP_LINE == M6805_IRQ_LINE + 1

M68HC05_INT_IRQ == 2 ^ M68HC05_IRQ_LINE

M68HC05_INT_TIMER == 2 ^ M68HC05_TCAP_LINE

M68HC05_INT_MASK == Or(M68HC05_INT_IRQ, M68HC05_INT_TIMER)

CLEAR_LINE == 0

ASSERT_LINE == 1

\* condition-code register: the interrupt-mask flag
IFLAG == \h08

VARIABLES
    \* digital I/O
    m_port_bits, m_port_input, m_port_latch, m_port_ddr,
    \* the levels the board drives on the port pins (what m_port_cb_r returns)
    pins,
    \* timer/counter
    m_tcap_state, m_tcr, m_tsr, m_tsr_seen, m_prescaler, m_counter,
    m_icr, m_ocr, m_inhibit_cap, m_inhibit_cmp, m_trl_buf, m_trl_latched,
    \* COP watchdogs
    m_pcop_cnt, m_ncop_cnt, m_coprst, m_copcr, m_ncope,
    \* processor
    m_pc, m_x, m_a, m_cc, m_s, m_pending_interrupts, m_irq_state, m_icount,
    mem,
    \* the device as built: how far its construction and start have come
    \* (stage), the device type (variant) and the mask option cell 0xfff1 of
    \* its ROM image (rom_fff1)
    device,
    \* observation: the last handler call (its arguments and return value),
    \* the callbacks it invoked, a raised fatal error, the number of calls,
    \* and what the claims need of the calls before the last one
    last, events, fatal, steps, hist

portVars == <<m_port_bits, m_port_input, m_port_latch, m_port_ddr, pins>>

timerVars == <<m_tcap_state, m_tcr, m_tsr, m_tsr_seen, m_prescaler, m_counter,
               m_icr, m_ocr, m_inhibit_cap, m_inhibit_cmp, m_trl_buf,
               m_trl_latched>>

copVars == <<m_pcop_cnt, m_ncop_cnt, m_coprst, m_copcr, m_ncope>>

cpuVars == <<m_pc, m_x, m_a, m_cc, m_s, m_irq_state, m_icount, mem>>

\* everything the device owns (m_pending_interrupts is shared by timer and cpu)
deviceVars == <<portVars, timerVars, copVars, cpuVars, m_pending_interrupts>>

vars == <<deviceVars, device, last, events, fatal, steps, hist>>

(***************************************************************************)
(* Register field accessors (m68hc05.h).                                   *)
(***************************************************************************)
tcr_iedg == BIT(m_tcr, 1) = 1

tcr_olvl == BIT(m_tcr, 0) = 1

copcr_copf == BIT(m_copcr, 4) = 1

copcr_pcope == BIT(m_copcr, 2) = 1

copcr_cm == And(m_copcr, \h03)

\* (m_tcr & m_tsr & 0xe0) for given register values
timer_irq_cond(tcr, tsr) == And(And(tcr, tsr), \he0) # 0

set_bit(mask, line) == Or(mask, 2 ^ line)

clear_bit(mask, line) == And(mask, Not16(2 ^ line))

(***************************************************************************)
(* Observation of a handler call.                                          *)
(***************************************************************************)
Call(op, dbg, offset, data, ret) ==
    [op |-> op, dbg |-> dbg, offset |-> offset, data |-> data, ret |-> ret]

NoCall == Call("none", FALSE, 0, 0, 0)

\* a program (not debugger) call of handler op
Program(call, op) == call.op = op /\ ~call.dbg

\* no write to COPRST yet
NotWritten == 0 - 1

\* History of the calls made so far:
\*   coprst_written  the byte last written to COPRST;
\*   coprst_before   the byte written to COPRST before that one;
\*   pcop_cycles     the cycles charged since the start or, if later, since
\*                   the last write of 0xaa to COPRST that directly followed
\*                   a write of 0x55;
\*   ocrl_reads      program reads of OCRL since the last program read of TSR
\*                   (counted up to 2);
\*   round_trip      the stage of the output-compare round trip;
\*   cap_window      the program has read ICRH and has not read ICRL since,
\*                   and the device has not been reset since;
\*   cmp_window      the program has written OCRH and has not written OCRL
\*                   since, and the device has not been reset since;
\*   pair_chan       the readout channel (0 TRH/TRL, 1 ATRH/ATRL) whose high
\*                   byte the program has read with only cycle accounting
\*                   since; 2 more once the program has read the low byte of
\*                   that channel as the next register access; else NoPair;
\*   pair_counter    the counter at that read of the high byte;
\*   pair_fresh      no earlier read of that high byte was still waiting for
\*                   its low byte then;
\*   ncop_off        the last write to COPR had bit 0 clear, and the device
\*                   has not been reset since.
NoPair == 0 - 1

NoHistory ==
    [coprst_written |-> NotWritten, coprst_before |-> NotWritten,
     pcop_cycles |-> 0, ocrl_reads |-> 0, round_trip |-> 0,
     cap_window |-> FALSE, cmp_window |-> FALSE,
     pair_chan |-> NoPair, pair_counter |-> 0, pair_fresh |-> FALSE,
     ncop_off |-> FALSE]

\* a window opened by a program access to the high byte through handler op and
\* closed by a program access to the low byte or a reset
WindowAfter(open, call, op) ==
    IF Program(call, op) THEN BIT(call.offset, 0) = 0
    ELSE IF call.op = "device_reset" THEN FALSE
         ELSE open

\* the list of events holds a call of callback cb
Invoked(evs, cb) == \E i \in 1 .. Len(evs) : evs[i].cb = cb

\* Stage of the output-compare round trip: 1 after a program write of OCRL,
\* 2 once a burn_cycles after it has invoked the compare-output callback,
\* 3 after a program read of TSR at stage 2, 4 after a program read of OCRL at
\* stage 3, 5 after one more program read of OCRL; any other call starts over.
RoundTripAfter(stage, call, evs) ==
    LET low == BIT(call.offset, 0) = 1 IN
    CASE Program(call, "ocr_w") /\ low -> 1
      [] call.op = "burn_cycles" /\ stage = 1 ->
             IF Invoked(evs, "tcmp") THEN 2 ELSE 1
      [] Program(call, "tsr_r") /\ stage = 2 -> 3
      [] Program(call, "ocr_r") /\ low /\ stage \in {3, 4} -> stage + 1
      [] OTHER -> 0

\* the read pair after a call made with counter value counter and
\* latch-pending flags latched
PairAfter(h, call, counter, latched) ==
    LET chan == BIT(call.offset, 1)
        none == [chan |-> NoPair, counter |-> 0, fresh |-> FALSE]
        kept == [chan |-> h.pair_chan, counter |-> h.pair_counter,
                 fresh |-> h.pair_fresh]
    IN  CASE Program(call, "timer_r") /\ BIT(call.offset, 0) = 0 ->
                 [chan |-> chan, counter |-> counter, fresh |-> ~latched[chan]]
          [] Program(call, "timer_r") /\ BIT(call.offset, 0) = 1
                 /\ h.pair_chan = chan ->
                 [kept EXCEPT !.chan = chan + 2]
          [] call.op = "burn_cycles" /\ h.pair_chan \in {0, 1} -> kept
          [] OTHER -> none

HistoryAfter(h, call, evs) ==
    [coprst_written |-> IF call.op = "coprst_w" THEN call.data
                        ELSE h.coprst_written,
     coprst_before  |-> IF call.op = "coprst_w" THEN h.coprst_written
                        ELSE h.coprst_before,
     pcop_cycles    |-> IF call.op = "coprst_w" /\ call.data = \haa
                            /\ h.coprst_written = \h55
                        THEN 0
                        ELSE IF call.op = "burn_cycles"
                             THEN h.pcop_cycles + call.data
                             ELSE IF call.op = "interrupt" /\ call.ret # 0
                                  THEN h.pcop_cycles + 10
                                  ELSE h.pcop_cycles,
     ocrl_reads     |-> IF Program(call, "tsr_r") THEN 0
                        ELSE IF Program(call, "ocr_r") /\ BIT(call.offset, 0) = 1
                             THEN IF h.ocrl_reads < 2 THEN h.ocrl_reads + 1
                                  ELSE 2
                             ELSE h.ocrl_reads,
     round_trip     |-> RoundTripAfter(h.round_trip, call, evs),
     cap_window     |-> WindowAfter(h.cap_window, call, "icr_r"),
     cmp_window     |-> WindowAfter(h.cmp_window, call, "ocr_w"),
     pair_chan      |-> PairAfter(h, call, m_counter, m_trl_latched).chan,
     pair_counter   |-> PairAfter(h, call, m_counter, m_trl_latched).counter,
     pair_fresh     |-> PairAfter(h, call, m_counter, m_trl_latched).fresh,
     ncop_off       |-> IF call.op = "copr_w" THEN BIT(call.data, 0) = 0
                        ELSE IF call.op = "device_reset" THEN FALSE
                             ELSE h.ncop_off]

Recorded(call, evs) ==
    /\ last' = call
    /\ events' = evs
    /\ steps' = steps + 1
    /\ hist' = HistoryAfter(hist, call, evs)

\* a call made to the started device
Observe(call, evs) ==
    /\ Recorded(call, evs)
    /\ UNCHANGED device

(***************************************************************************)
(* Program memory the core reads: the vector table and the mask option     *)
(* cell of the ROM image.  The contents are the program's, chosen here so  *)
(* that every vector leads somewhere else.                                 *)
(***************************************************************************)
rdmem(addr) ==
    CASE addr = M68HC05_VECTOR_TIMER     -> \h01
      [] addr = M68HC05_VECTOR_TIMER + 1 -> \h40
      [] addr = M68HC05_VECTOR_INT       -> \h02
      [] addr = M68HC05_VECTOR_INT + 1   -> \h80
      [] addr = M68HC05_VECTOR_SWI       -> \h03
      [] addr = M68HC05_VECTOR_SWI + 1   -> \hc0
      [] addr = M68HC05_VECTOR_RESET     -> \h01
      [] addr = M68HC05_VECTOR_RESET + 1 -> \h00
      [] addr = \hfff1                   -> device.rom_fff1
      [] OTHER                           -> \hff

\* rm16: big-endian word read
rm16(addr) == rdmem(addr) * 256 + rdmem(addr + 1)

(***************************************************************************)
(* Callback invocations and line pulses made by a handler.                 *)
(***************************************************************************)
Event(cb, arg, tag) == [cb |-> cb, arg |-> arg, mask |-> 0, tag |-> tag]

\* m_port_cb_w[offset](space, 0, value, ddr)
PortWrite(offset, value, ddr) ==
    [cb |-> "port_w", arg |-> value, mask |-> ddr, tag |-> ToString(offset)]

(***************************************************************************)
(* Digital I/O ports.                                                      *)
(***************************************************************************)
\* the ports whose input callback the board has bound (!isnull())
port_cb_r_bound == {0, 1, 3}

\* port_value for given latch, direction and cached input
port_value_of(latch, ddr, input) ==
    Or(And(latch, ddr), And(input, Not8(ddr)))

\* u8 port_value(unsigned offset) const
port_value(offset) ==
    port_value_of(m_port_latch[offset], m_port_ddr[offset],
                  m_port_input[offset])

\* m_port_cb_r[offset](space, 0, mask)
PortRead(offset, mask) ==
    [cb |-> "port_r", arg |-> 0, mask |-> mask, tag |-> ToString(offset)]

\* faulty variant of port_r_newval: the callback's result is taken as it is
port_r_newval_unmasked(offset) == pins[offset]

\* the input port_r samples: the callback's result masked to the wired bits
port_r_newval(offset) == And(pins[offset], m_port_bits[offset])

\* READ8_MEMBER(m68hc05_device::port_r): no test of debugger_access()
port_r(offset0, dbg) ==
    LET offset == And(offset0, PORT_COUNT - 1)
        input  == IF offset \in port_cb_r_bound
                  THEN port_r_newval(offset)
                  ELSE m_port_input[offset]
    IN  /\ m_port_input' = [m_port_input EXCEPT ![offset] = input]
        /\ UNCHANGED <<m_port_bits, m_port_latch, m_port_ddr, pins>>
        /\ UNCHANGED <<timerVars, copVars, cpuVars, m_pending_interrupts,
                       fatal>>
        /\ Observe(Call("port_r", dbg, offset0, 0,
                        port_value_of(m_port_latch[offset], m_port_ddr[offset],
                                      input)),
                   IF offset \in port_cb_r_bound
                   THEN <<PortRead(offset, And(Not8(m_port_ddr[offset]),
                                               m_port_bits[offset]))>>
                   ELSE <<>>)

\* faulty variant of port_latch_w: the data is not masked to the wired bits
port_latch_w_unmasked(offset0, data0) ==
    LET offset == And(offset0, PORT_COUNT - 1)
        data   == data0
        diff   == Xor(m_port_latch[offset], data)
    IN  /\ m_port_latch' = [m_port_latch EXCEPT ![offset] = data]
        /\ UNCHANGED <<m_port_bits, m_port_input, m_port_ddr, pins>>
        /\ UNCHANGED <<timerVars, copVars, cpuVars, m_pending_interrupts,
                       fatal>>
        /\ Observe(Call("port_latch_w", FALSE, offset0, data0, 0),
                   IF And(diff, m_port_ddr[offset]) # 0
                   THEN <<PortWrite(offset,
                                    port_value_of(data, m_port_ddr[offset],
                                                  m_port_input[offset]),
                                    m_port_ddr[offset])>>
                   ELSE <<>>)

\* WRITE8_MEMBER(m68hc05_device::port_latch_w)
port_latch_w(offset0, data0) ==
    LET offset == And(offset0, PORT_COUNT - 1)
        data   == And(data0, m_port_bits[offset])
        diff   == Xor(m_port_latch[offset], data)
    IN  /\ m_port_latch' = [m_port_latch EXCEPT ![offset] = data]
        /\ UNCHANGED <<m_port_bits, m_port_input, m_port_ddr, pins>>
        /\ UNCHANGED <<timerVars, copVars, cpuVars, m_pending_interrupts,
                       fatal>>
        /\ Observe(Call("port_latch_w", FALSE, offset0, data0, 0),
                   IF And(diff, m_port_ddr[offset]) # 0
                   THEN <<PortWrite(offset,
                                    port_value_of(data, m_port_ddr[offset],
                                                  m_port_input[offset]),
                                    m_port_ddr[offset])>>
                   ELSE <<>>)

\* READ8_MEMBER(m68hc05_device::port_ddr_r)
port_ddr_r(offset0, dbg) ==
    /\ UNCHANGED <<deviceVars, fatal>>
    /\ Observe(Call("port_ddr_r", dbg, offset0, 0,
                    m_port_ddr[And(offset0, PORT_COUNT - 1)]), <<>>)

\* faulty variant of port_ddr_w: the callback is invoked on every write
port_ddr_w_always_calls(offset0, data0) ==
    LET offset == And(offset0, PORT_COUNT - 1)
        data   == And(data0, m_port_bits[offset])
    IN  /\ m_port_ddr' = [m_port_ddr EXCEPT ![offset] = data]
        /\ UNCHANGED <<m_port_bits, m_port_input, m_port_latch, pins>>
        /\ UNCHANGED <<timerVars, copVars, cpuVars, m_pending_interrupts,
                       fatal>>
        /\ Observe(Call("port_ddr_w", FALSE, offset0, data0, 0),
                   <<PortWrite(offset,
                               port_value_of(m_port_latch[offset], data,
                                             m_port_input[offset]),
                               data)>>)

\* WRITE8_MEMBER(m68hc05_device::port_ddr_w)
port_ddr_w(offset0, data0) ==
    LET offset == And(offset0, PORT_COUNT - 1)
        data   == And(data0, m_port_bits[offset])
    IN  /\ m_port_ddr' = IF data # m_port_ddr[offset]
                         THEN [m_port_ddr EXCEPT ![offset] = data]
                         ELSE m_port_ddr
        /\ UNCHANGED <<m_port_bits, m_port_input, m_port_latch, pins>>
        /\ UNCHANGED <<timerVars, copVars, cpuVars, m_pending_interrupts,
                       fatal>>
        /\ Observe(Call("port_ddr_w", FALSE, offset0, data0, 0),
                   IF data # m_port_ddr[offset]
                   THEN <<PortWrite(offset,
                                    port_value_of(m_port_latch[offset], data,
                                                  m_port_input[offset]),
                                    data)>>
                   ELSE <<>>)

\* the board changes the levels on the pins of a port
drive_pins(offset, levels) ==
    /\ pins' = [pins EXCEPT ![offset] = levels]
    /\ UNCHANGED <<m_port_bits, m_port_input, m_port_latch, m_port_ddr>>
    /\ UNCHANGED <<timerVars, copVars, cpuVars, m_pending_interrupts, fatal>>
    /\ Observe(Call("drive_pins", FALSE, offset, levels, 0), <<>>)

(***************************************************************************)
(* Timer register handlers.                                                *)
(***************************************************************************)
\* faulty variant of tcr_w: the write never withdraws the timer interrupt
tcr_w_only_raises(data) ==
    LET d == And(data, \he3) IN
    /\ m_tcr' = d
    /\ m_pending_interrupts' =
           IF timer_irq_cond(d, m_tsr)
           THEN set_bit(m_pending_interrupts, M68HC05_TCAP_LINE)
           ELSE m_pending_interrupts
    /\ UNCHANGED <<m_tcap_state, m_tsr, m_tsr_seen, m_prescaler, m_counter,
                   m_icr, m_ocr, m_inhibit_cap, m_inhibit_cmp, m_trl_buf,
                   m_trl_latched>>
    /\ UNCHANGED <<portVars, copVars, cpuVars, fatal>>
    /\ Observe(Call("tcr_w", FALSE, 0, data, 0), <<>>)

\* WRITE8_MEMBER(m68hc05_device::tcr_w)
tcr_w(data) ==
    LET d == And(data, \he3) IN
    /\ m_tcr' = d
    /\ m_pending_interrupts' =
           IF timer_irq_cond(d, m_tsr)
           THEN set_bit(m_pending_interrupts, M68HC05_TCAP_LINE)
           ELSE clear_bit(m_pending_interrupts, M68HC05_TCAP_LINE)
    /\ UNCHANGED <<m_tcap_state, m_tsr, m_tsr_seen, m_prescaler, m_counter,
                   m_icr, m_ocr, m_inhibit_cap, m_inhibit_cmp, m_trl_buf,
                   m_trl_latched>>
    /\ UNCHANGED <<portVars, copVars, cpuVars, fatal>>
    /\ Observe(Call("tcr_w", FALSE, 0, data, 0), <<>>)

\* faulty variant of tsr_r_seen: a status read marks every flag as seen
tsr_r_seen_all_flags(dbg) == IF ~dbg THEN \he0 ELSE m_tsr_seen

\* the value m_tsr_seen takes in tsr_r
tsr_r_seen(dbg) == IF ~dbg THEN m_tsr ELSE m_tsr_seen

\* READ8_MEMBER(m68hc05_device::tsr_r)
tsr_r(dbg) ==
    /\ m_tsr_seen' = tsr_r_seen(dbg)
    /\ UNCHANGED <<m_tcap_state, m_tcr, m_tsr, m_prescaler, m_counter, m_icr,
                   m_ocr, m_inhibit_cap, m_inhibit_cmp, m_trl_buf,
                   m_trl_latched>>
    /\ UNCHANGED <<portVars, copVars, cpuVars, m_pending_interrupts, fatal>>
    /\ Observe(Call("tsr_r", dbg, 0, 0, m_tsr), <<>>)

\* faulty variant of flag_seen: tests the status flag itself
flag_seen_tests_status(bit) == BIT(m_tsr, bit) = 1

\* a status read has marked flag `bit' as seen (BIT(m_tsr_seen, bit))
flag_seen(bit) == BIT(m_tsr_seen, bit) = 1

\* faulty variant of clear_flag: the seen bit is left set
clear_flag_keeps_seen(bit) ==
    LET keep == \hff - 2 ^ bit
        tsr  == And(m_tsr, keep)
    IN  /\ m_tsr' = tsr
        /\ UNCHANGED m_tsr_seen
        /\ m_pending_interrupts' =
               IF ~timer_irq_cond(m_tcr, tsr)
               THEN clear_bit(m_pending_interrupts, M68HC05_TCAP_LINE)
               ELSE m_pending_interrupts

\* the shared tail of every flag-clearing access: clear flag `bit' of TSR and
\* of the seen shadow, and drop the timer interrupt when nothing enabled is left
clear_flag(bit) ==
    LET keep == \hff - 2 ^ bit
        tsr  == And(m_tsr, keep)
    IN  /\ m_tsr' = tsr
        /\ m_tsr_seen' = And(m_tsr_seen, keep)
        /\ m_pending_interrupts' =
               IF ~timer_irq_cond(m_tcr, tsr)
               THEN clear_bit(m_pending_interrupts, M68HC05_TCAP_LINE)
               ELSE m_pending_interrupts

keep_flags == UNCHANGED <<m_tsr, m_tsr_seen, m_pending_interrupts>>

\* READ8_MEMBER(m68hc05_device::icr_r)
icr_r(offset, dbg) ==
    LET low == BIT(offset, 0) IN
    /\ IF ~dbg
       THEN IF low = 1
            THEN /\ IF flag_seen(7) THEN clear_flag(7) ELSE keep_flags
                 /\ m_inhibit_cap' = FALSE
            ELSE /\ keep_flags
                 /\ m_inhibit_cap' = TRUE
       ELSE /\ keep_flags
            /\ UNCHANGED m_inhibit_cap
    /\ UNCHANGED <<m_tcap_state, m_tcr, m_prescaler, m_counter, m_icr, m_ocr,
                   m_inhibit_cmp, m_trl_buf, m_trl_latched>>
    /\ UNCHANGED <<portVars, copVars, cpuVars, fatal>>
    /\ Observe(Call("icr_r", dbg, offset,
                    0, u8(m_icr \div (IF low = 1 THEN 1 ELSE 256))), <<>>)

\* READ8_MEMBER(m68hc05_device::ocr_r)
ocr_r(offset, dbg) ==
    LET low == BIT(offset, 0) IN
    /\ IF ~dbg /\ low = 1 /\ flag_seen(6)
       THEN clear_flag(6)
       ELSE keep_flags
    /\ UNCHANGED <<m_tcap_state, m_tcr, m_prescaler, m_counter, m_icr, m_ocr,
                   m_inhibit_cap, m_inhibit_cmp, m_trl_buf, m_trl_latched>>
    /\ UNCHANGED <<portVars, copVars, cpuVars, fatal>>
    /\ Observe(Call("ocr_r", dbg, offset,
                    0, u8(m_ocr \div (IF low = 1 THEN 1 ELSE 256))), <<>>)

\* WRITE8_MEMBER(m68hc05_device::ocr_w)
ocr_w(offset, data, dbg) ==
    LET low == BIT(offset, 0) IN
    /\ IF ~dbg
       THEN IF low = 1
            THEN /\ IF flag_seen(6) THEN clear_flag(6) ELSE keep_flags
                 /\ m_inhibit_cmp' = FALSE
            ELSE /\ keep_flags
                 /\ m_inhibit_cmp' = TRUE
       ELSE /\ keep_flags
            /\ UNCHANGED m_inhibit_cmp
    /\ m_ocr' = IF low = 1
                THEN Or(And(m_ocr, \hff00), data)
                ELSE Or(And(m_ocr, \h00ff), data * 256)
    /\ UNCHANGED <<m_tcap_state, m_tcr, m_prescaler, m_counter, m_icr,
                   m_inhibit_cap, m_trl_buf, m_trl_latched>>
    /\ UNCHANGED <<portVars, copVars, cpuVars, fatal>>
    /\ Observe(Call("ocr_w", dbg, offset, data, 0), <<>>)

\* faulty variant of trl_read: the low byte comes from the running counter
trl_read_live(alt) == u8(m_counter)

\* the value a read of TRL or ATRL returns
trl_read(alt) == m_trl_buf[alt]

\* READ8_MEMBER(m68hc05_device::timer_r)
timer_r(offset, dbg) ==
    LET low == BIT(offset, 0)
        alt == BIT(offset, 1)
    IN
    /\ IF low = 1
       THEN /\ IF ~dbg
               THEN /\ m_trl_latched' = [m_trl_latched EXCEPT ![alt] = FALSE]
                    /\ IF alt = 0 /\ flag_seen(5)
                       THEN clear_flag(5)
                       ELSE keep_flags
               ELSE /\ UNCHANGED m_trl_latched
                    /\ keep_flags
            /\ UNCHANGED m_trl_buf
            /\ Observe(Call("timer_r", dbg, offset, 0, trl_read(alt)), <<>>)
       ELSE /\ IF ~dbg /\ ~m_trl_latched[alt]
               THEN /\ m_trl_latched' = [m_trl_latched EXCEPT ![alt] = TRUE]
                    /\ m_trl_buf' = [m_trl_buf EXCEPT ![alt] = u8(m_counter)]
               ELSE UNCHANGED <<m_trl_latched, m_trl_buf>>
            /\ keep_flags
            /\ Observe(Call("timer_r", dbg, offset, 0, u8(m_counter \div 256)),
                       <<>>)
    /\ UNCHANGED <<m_tcap_state, m_tcr, m_prescaler, m_counter, m_icr, m_ocr,
                   m_inhibit_cap, m_inhibit_cmp>>
    /\ UNCHANGED <<portVars, copVars, cpuVars, fatal>>

(***************************************************************************)
(* COP watchdog register handlers.                                         *)
(***************************************************************************)
\* faulty variant of coprst_clear: clears the low 15 bits instead
coprst_clear_low(cnt) == And(cnt, \h001f8000)

\* the counter after a COPRST write of 0xaa that completes the sequence
coprst_clear(cnt) == And(cnt, \h00007fff)

\* WRITE8_MEMBER(m68hc05_device::coprst_w)
coprst_w(data) ==
    /\ IF \h55 = data
       THEN /\ m_coprst' = data
            /\ UNCHANGED m_pcop_cnt
       ELSE IF \haa = data
            THEN /\ m_pcop_cnt' = IF \h55 = m_coprst
                                  THEN coprst_clear(m_pcop_cnt)
                                  ELSE m_pcop_cnt
                 /\ m_coprst' = data
            ELSE UNCHANGED <<m_coprst, m_pcop_cnt>>
    /\ UNCHANGED <<m_ncop_cnt, m_copcr, m_ncope>>
    /\ UNCHANGED <<portVars, timerVars, cpuVars, m_pending_interrupts, fatal>>
    /\ Observe(Call("coprst_w", FALSE, 0, data, 0), <<>>)

\* READ8_MEMBER(m68hc05_device::copcr_r): no test of debugger_access()
copcr_r(dbg) ==
    /\ m_copcr' = And(m_copcr, \hef)
    /\ UNCHANGED <<m_pcop_cnt, m_ncop_cnt, m_coprst, m_ncope>>
    /\ UNCHANGED <<portVars, timerVars, cpuVars, m_pending_interrupts, fatal>>
    /\ Observe(Call("copcr_r", dbg, 0, 0, m_copcr), <<>>)

\* faulty variant of copcr_w: the write replaces COPF as well
copcr_w_overwrites_copf(data) ==
    /\ m_copcr' = Or(And(m_copcr, \he4), And(data, \h0f))
    /\ UNCHANGED <<m_pcop_cnt, m_ncop_cnt, m_coprst, m_ncope>>
    /\ UNCHANGED <<portVars, timerVars, cpuVars, m_pending_interrupts, fatal>>
    /\ Observe(Call("copcr_w", FALSE, 0, data, 0), <<>>)

\* faulty variant of copcr_w: the write replaces PCOPE as well
copcr_w_replaces_pcope(data) ==
    /\ m_copcr' = Or(And(m_copcr, \hf0), And(data, \h0f))
    /\ UNCHANGED <<m_pcop_cnt, m_ncop_cnt, m_coprst, m_ncope>>
    /\ UNCHANGED <<portVars, timerVars, cpuVars, m_pending_interrupts, fatal>>
    /\ Observe(Call("copcr_w", FALSE, 0, data, 0), <<>>)

\* WRITE8_MEMBER(m68hc05_device::copcr_w)
copcr_w(data) ==
    /\ m_copcr' = Or(And(m_copcr, \hf4), And(data, \h0f))
    /\ UNCHANGED <<m_pcop_cnt, m_ncop_cnt, m_coprst, m_ncope>>
    /\ UNCHANGED <<portVars, timerVars, cpuVars, m_pending_interrupts, fatal>>
    /\ Observe(Call("copcr_w", FALSE, 0, data, 0), <<>>)

\* WRITE8_MEMBER(m68hc05_device::copr_w)
copr_w(data) ==
    /\ m_ncop_cnt' = IF BIT(data, 0) = 0 THEN 0 ELSE m_ncop_cnt
    /\ UNCHANGED <<m_pcop_cnt, m_coprst, m_copcr, m_ncope>>
    /\ UNCHANGED <<portVars, timerVars, cpuVars, m_pending_interrupts, fatal>>
    /\ Observe(Call("copr_w", FALSE, 0, data, 0), <<>>)

(***************************************************************************)
(* Cycle accounting: m68hc05_device::burn_cycles.  The locals of the       *)
(* function are operators of the pre-state and the cycle count.            *)
(***************************************************************************)
ps_opt == 4

ps_mask == (2 ^ ps_opt) - 1

\* faulty variant of increments: the remainder of earlier calls is dropped
increments_no_carry(count) == count \div (2 ^ ps_opt)

increments(count) == (count + And(m_prescaler, ps_mask)) \div (2 ^ ps_opt)

new_counter(count) == m_counter + increments(count)

timer_rollover(count) ==
    (\h010000 > m_counter) /\ (\h010000 <= new_counter(count))

\* faulty variant of output_compare_match: the interval is closed at the wrong end
output_compare_match_early(count) ==
    (m_ocr >= m_counter) /\ (m_ocr < new_counter(count))

output_compare_match(count) ==
    (m_ocr > m_counter) /\ (m_ocr <= new_counter(count))

\* faulty variant of burn_tsr: a compare match sets OCF even when inhibited
burn_tsr_uninhibited(count) ==
    LET t1 == IF timer_rollover(count) THEN Or(m_tsr, \h20) ELSE m_tsr
    IN  IF output_compare_match(count)
        THEN Or(t1, \h40)
        ELSE t1

\* m_tsr after the rollover and compare tests
burn_tsr(count) ==
    LET t1 == IF timer_rollover(count) THEN Or(m_tsr, \h20) ELSE m_tsr
    IN  IF output_compare_match(count) /\ ~m_inhibit_cmp
        THEN Or(t1, \h40)
        ELSE t1

\* faulty variant of pcop_timeout: the timeout field is not doubled
pcop_timeout_single_shift == 2 ^ (copcr_cm + 15)

pcop_timeout == 2 ^ ((copcr_cm * 2) + 15)

\* the programmable COP times out in this call
pcop_fires(count) ==
    copcr_pcope /\ (pcop_timeout <= (And(m_pcop_cnt, pcop_timeout - 1) + count))

\* faulty variant of ncop_fires: reaching the threshold exactly does not count
ncop_fires_late(count) == (2 ^ 17) < (m_ncop_cnt + count)

\* the non-programmable COP times out in this call
ncop_fires(count) == (2 ^ 17) <= (m_ncop_cnt + count)

\* the callbacks burn_cycles invokes, in the order it invokes them
burn_events(count) ==
    (IF output_compare_match(count) /\ ~m_inhibit_cmp
     THEN <<Event("tcmp", IF tcr_olvl THEN 1 ELSE 0, "")>> ELSE <<>>)
    \o (IF pcop_fires(count) THEN <<Event("reset", 0, "PCOP")>> ELSE <<>>)
    \o (IF ncop_fires(count) THEN <<Event("reset", 0, "NCOP")>> ELSE <<>>)

\* the state change of burn_cycles(count)
burn_cycles(count) ==
    /\ m_prescaler' = And(count + m_prescaler, ps_mask)
    /\ m_counter' = u16(new_counter(count))
    /\ m_tsr' = burn_tsr(count)
    /\ m_pending_interrupts' =
           IF timer_irq_cond(m_tcr, burn_tsr(count))
           THEN set_bit(m_pending_interrupts, M68HC05_TCAP_LINE)
           ELSE m_pending_interrupts
    /\ m_copcr' = IF pcop_fires(count) THEN Or(m_copcr, \h10) ELSE m_copcr
    /\ m_pcop_cnt' = And(m_pcop_cnt + count, (2 ^ 21) - 1)
    /\ m_ncop_cnt' = And(m_ncop_cnt + count, (2 ^ 17) - 1)
    /\ UNCHANGED <<m_tcap_state, m_tcr, m_tsr_seen, m_icr, m_ocr,
                   m_inhibit_cap, m_inhibit_cmp, m_trl_buf, m_trl_latched>>
    /\ UNCHANGED <<m_coprst, m_ncope, portVars>>

\* the execution core charging the cycles of one retired instruction
BurnCycles(count) ==
    /\ burn_cycles(count)
    /\ UNCHANGED <<cpuVars, fatal>>
    /\ Observe(Call("burn_cycles", FALSE, 0, count, 0), burn_events(count))

(***************************************************************************)
(* Input lines: m68hc05_device::execute_set_input.                         *)
(***************************************************************************)
\* faulty variant of capture_edge: the recorded level is not compared
capture_edge_any_level(state) == (state # 0) = tcr_iedg

\* the event is an edge of the selected polarity
capture_edge(state) ==
    ((state # 0) # m_tcap_state) /\ ((state # 0) = tcr_iedg)

execute_set_input(inputnum, state) ==
    /\ IF inputnum = M68HC05_TCAP_LINE
       THEN /\ IF capture_edge(state) /\ ~m_inhibit_cap
               THEN /\ m_tsr' = Or(m_tsr, \h80)
                    /\ m_icr' = m_counter
                    /\ m_pending_interrupts' =
                           IF timer_irq_cond(m_tcr, Or(m_tsr, \h80))
                           THEN set_bit(m_pending_interrupts, M68HC05_TCAP_LINE)
                           ELSE m_pending_interrupts
               ELSE UNCHANGED <<m_tsr, m_icr, m_pending_interrupts>>
            /\ m_tcap_state' = (state # 0)
            /\ UNCHANGED m_irq_state
       ELSE /\ IF m_irq_state[inputnum] # state
               THEN /\ m_irq_state' =
                           [m_irq_state EXCEPT ![inputnum] =
                                IF state = ASSERT_LINE THEN ASSERT_LINE
                                ELSE CLEAR_LINE]
                    /\ m_pending_interrupts' =
                           IF state # CLEAR_LINE
                           THEN set_bit(m_pending_interrupts, inputnum)
                           ELSE m_pending_interrupts
               ELSE UNCHANGED <<m_irq_state, m_pending_interrupts>>
            /\ UNCHANGED <<m_tsr, m_icr, m_tcap_state>>
    /\ UNCHANGED <<m_tcr, m_tsr_seen, m_prescaler, m_counter, m_ocr,
                   m_inhibit_cap, m_inhibit_cmp, m_trl_buf, m_trl_latched>>
    /\ UNCHANGED <<m_pc, m_x, m_a, m_cc, m_s, m_icount, mem>>
    /\ UNCHANGED <<portVars, copVars, fatal>>
    /\ Observe(Call("execute_set_input", FALSE, inputnum, state, 0), <<>>)

(***************************************************************************)
(* Processor: stack pushes, the instructions that set registers and the    *)
(* interrupt-mask flag, and m68hc05_device::interrupt.                     *)
(***************************************************************************)
\* SP_DEC: the stack pointer stays in [SP_LOW, SP_MASK] and wraps
sp_dec(s) == IF s - 1 < SP_LOW THEN SP_MASK ELSE s - 1

\* pushbyte on a stack st = [s, mem]: store at S, then decrement S
pushbyte(st, b) == [s |-> sp_dec(st.s), mem |-> [st.mem EXCEPT ![st.s] = b]]

\* pushword: low byte first, then high byte
pushword(st, w) == pushbyte(pushbyte(st, w % 256), w \div 256)

\* faulty variant of interrupt_pushes: accumulator pushed before index register
interrupt_pushes_a_first ==
    pushbyte(pushbyte(pushbyte(pushword([s |-> m_s, mem |-> mem], m_pc), m_a),
                      m_x), m_cc)

\* the stack after interrupt() has pushed the processor state
interrupt_pushes ==
    pushbyte(pushbyte(pushbyte(pushword([s |-> m_s, mem |-> mem], m_pc), m_x),
                      m_a), m_cc)

\* the vector interrupt() loads the program counter from
interrupt_vector == M68HC05_VECTOR_TIMER

\* faulty variant of interrupt_handled: every pending bit counts as handled
interrupt_handled_any == And(m_pending_interrupts, M68HC05_INT_MASK) # 0

\* the interrupt has a handler in interrupt()
interrupt_handled == BIT(m_pending_interrupts, M68HC05_TCAP_LINE) = 1

\* faulty variant of interrupt_taken: the interrupt-mask flag is not tested
interrupt_taken_unmasked == And(m_pending_interrupts, M68HC05_INT_MASK) # 0

\* interrupt() gets past its two tests
interrupt_taken ==
    (And(m_pending_interrupts, M68HC05_INT_MASK) # 0) /\ (And(m_cc, IFLAG) = 0)

\* void m68hc05_device::interrupt()
interrupt ==
    IF interrupt_taken
    THEN /\ m_s' = interrupt_pushes.s
         /\ mem' = interrupt_pushes.mem
         /\ m_cc' = Or(m_cc, IFLAG)
         /\ UNCHANGED <<m_x, m_a, m_irq_state>>
         /\ IF interrupt_handled
            THEN /\ m_pc' = rm16(interrupt_vector)
                 /\ m_icount' = m_icount - 10
                 /\ burn_cycles(10)
                 /\ UNCHANGED fatal
                 /\ Observe(Call("interrupt", FALSE, 0, 0, interrupt_vector),
                            <<Event("irq_ack", 0, "")>> \o burn_events(10))
            ELSE \* throw emu_fatalerror("Unknown pending interrupt")
                 /\ fatal' = TRUE
                 /\ UNCHANGED <<m_pc, m_icount, m_pending_interrupts>>
                 /\ UNCHANGED <<portVars, timerVars, copVars>>
                 /\ Observe(Call("interrupt", FALSE, 0, 0, 0),
                            <<Event("irq_ack", 0, "")>>)
    ELSE /\ UNCHANGED <<deviceVars, fatal>>
         /\ Observe(Call("interrupt", FALSE, 0, 0, 0), <<>>)

\* CLI: the program clears the interrupt-mask flag
cli ==
    /\ m_cc' = And(m_cc, Not8(IFLAG))
    /\ UNCHANGED <<m_pc, m_x, m_a, m_s, m_irq_state, m_icount, mem>>
    /\ UNCHANGED <<portVars, timerVars, copVars, m_pending_interrupts, fatal>>
    /\ Observe(Call("cli", FALSE, 0, 0, 0), <<>>)

\* register contents the program reaches by executing instructions
RegisterFiles ==
    { [pc |-> \h0123, x |-> \h5a, a |-> \ha5, cc |-> \he1 + IFLAG, s |-> \hff],
      [pc |-> \h1e42, x |-> \h07, a |-> \h3c, cc |-> \he6, s |-> \hc2] }

\* any instructions that leave the registers at r
run_instructions(r) ==
    /\ m_pc' = r.pc
    /\ m_x' = r.x
    /\ m_a' = r.a
    /\ m_cc' = r.cc
    /\ m_s' = r.s
    /\ UNCHANGED <<m_irq_state, m_icount, mem>>
    /\ UNCHANGED <<portVars, timerVars, copVars, m_pending_interrupts, fatal>>
    /\ Observe(Call("run_instructions", FALSE, 0, r.pc, 0), <<>>)

(***************************************************************************)
(* Start and reset.                                                        *)
(***************************************************************************)
tcr_after_reset_cleared == And(m_tcr, \h00)

\* m_tcr &= 0x02
tcr_after_reset == And(m_tcr, \h02)

\* void m68hc705c8a_device::device_reset(), with the resets it calls
device_reset ==
    \* m6805_base_device::device_reset()
    /\ m_pc' = rm16(M68HC05_VECTOR_RESET)
    /\ m_s' = SP_MASK
    /\ m_a' = 0
    /\ m_x' = 0
    /\ m_cc' = IFLAG
    /\ m_pending_interrupts' = 0
    /\ UNCHANGED <<m_irq_state, m_icount, mem>>
    \* m68hc05_device::device_reset()
    /\ m_port_ddr' = [p \in 0 .. PORT_COUNT - 1 |-> \h00]
    /\ m_tcr' = tcr_after_reset
    /\ m_tsr_seen' = \h00
    /\ m_prescaler' = 0
    /\ m_counter' = \hfffc
    /\ m_inhibit_cap' = FALSE
    /\ m_inhibit_cmp' = FALSE
    /\ m_trl_buf' = [c \in 0 .. 1 |-> u8(\hfffc)]
    /\ m_trl_latched' = [c \in 0 .. 1 |-> FALSE]
    /\ m_ncop_cnt' = 0
    /\ m_copcr' = And(m_copcr, \h10)
    \* m68hc705c8a_device::device_reset(): set_ncope(rdmem(0xfff1))
    /\ m_ncope' = IF device.variant = "c8a"
                  THEN IF rdmem(\hfff1) # 0 THEN 1 ELSE 0
                  ELSE m_ncope
    /\ UNCHANGED <<m_port_bits, m_port_input, m_port_latch, pins>>
    /\ UNCHANGED <<m_tcap_state, m_tsr, m_icr, m_ocr>>
    /\ UNCHANGED <<m_pcop_cnt, m_coprst>>
    /\ UNCHANGED fatal
    /\ Observe(Call("device_reset", FALSE, 0, 0, 0), <<>>)

\* device_t::configured() || device_t::started()
configured_or_started == device.stage # "constructed"

\* the four masks set_port_bits(a, b, c, d) stores
PortBitsOf(a, b, c, d) ==
    [p \in 0 .. PORT_COUNT - 1 |->
        CASE p = 0 -> a
          [] p = 1 -> b
          [] p = 2 -> c
          [] p = 3 -> d]

\* two arguments of set_port_bits as one call datum
PortBitsWord(hi, lo) == hi * 2^8 + lo

set_port_bits_unchecked(a, b, c, d) ==
    /\ m_port_bits' = PortBitsOf(a, b, c, d)
    /\ UNCHANGED <<m_port_input, m_port_latch, m_port_ddr, pins>>
    /\ UNCHANGED <<timerVars, copVars, cpuVars, m_pending_interrupts>>
    /\ UNCHANGED <<fatal, device>>
    /\ Recorded(Call("set_port_bits", FALSE, PortBitsWord(a, b),
                     PortBitsWord(c, d), 0), <<>>)

\* void m68hc05_device::set_port_bits(u8 a, u8 b, u8 c, u8 d)
set_port_bits(a, b, c, d) ==
    /\ IF configured_or_started
       THEN \* throw emu_fatalerror(...)
            /\ fatal' = TRUE
            /\ UNCHANGED m_port_bits
       ELSE /\ m_port_bits' = PortBitsOf(a, b, c, d)
            /\ UNCHANGED fatal
    /\ UNCHANGED <<m_port_input, m_port_latch, m_port_ddr, pins>>
    /\ UNCHANGED <<timerVars, copVars, cpuVars, m_pending_interrupts>>
    /\ UNCHANGED device
    /\ Recorded(Call("set_port_bits", FALSE, PortBitsWord(a, b),
                     PortBitsWord(c, d), 0), <<>>)

\* the machine configuration is complete: device_t::config_complete()
config_complete ==
    /\ device.stage = "constructed"
    /\ device' = [device EXCEPT !.stage = "configured"]
    /\ UNCHANGED <<deviceVars, fatal>>
    /\ Recorded(Call("config_complete", FALSE, 0, 0, 0), <<>>)

\* void m68hc05_device::device_start()
device_start ==
    /\ device.stage = "configured"
    /\ device' = [device EXCEPT !.stage = "started"]
    \* digital I/O state unaffected by reset
    /\ m_port_input' = [p \in 0 .. PORT_COUNT - 1 |-> \hff]
    /\ m_port_latch' = [p \in 0 .. PORT_COUNT - 1 |-> \hff]
    \* timer state unaffected by reset
    /\ m_tcap_state' = FALSE
    /\ m_tcr' = \h00
    /\ m_tsr' = \h00
    /\ m_icr' = \h0000
    /\ m_ocr' = \h0000
    \* COP watchdog state unaffected by reset
    /\ m_pcop_cnt' = 0
    /\ m_coprst' = \h00
    /\ m_copcr' = \h00
    /\ m_ncope' = 0
    /\ UNCHANGED <<m_port_bits, m_port_ddr, pins>>
    /\ UNCHANGED <<m_tsr_seen, m_prescaler, m_counter, m_inhibit_cap,
                   m_inhibit_cmp, m_trl_buf, m_trl_latched, m_ncop_cnt>>
    /\ UNCHANGED <<cpuVars, m_pending_interrupts, fatal>>
    /\ Recorded(Call("device_start", FALSE, 0, 0, 0), <<>>)

\* the first reset of a started device
first_reset ==
    /\ device.stage = "started"
    /\ device_reset

\* the device dev as its constructor leaves it
ConstructedAs(dev) ==
    /\ device = dev
    /\ m_port_bits = [p \in 0 .. PORT_COUNT - 1 |-> \hff]
    /\ m_port_input = [p \in 0 .. PORT_COUNT - 1 |-> \hff]
    /\ m_port_latch = [p \in 0 .. PORT_COUNT - 1 |-> \hff]
    /\ m_port_ddr = [p \in 0 .. PORT_COUNT - 1 |-> \h00]
    /\ pins = [p \in 0 .. PORT_COUNT - 1 |-> \hff]
    /\ m_tcap_state = FALSE
    /\ m_tcr = \h00
    /\ m_tsr = \h00
    /\ m_tsr_seen = \h00
    /\ m_prescaler = \h00
    /\ m_counter = \hfffc
    /\ m_icr = \h0000
    /\ m_ocr = \h0000
    /\ m_inhibit_cap = FALSE
    /\ m_inhibit_cmp = FALSE
    /\ m_trl_buf = [c \in 0 .. 1 |-> \hfc]
    /\ m_trl_latched = [c \in 0 .. 1 |-> FALSE]
    /\ m_pcop_cnt = 0
    /\ m_ncop_cnt = 0
    /\ m_coprst = \h00
    /\ m_copcr = \h00
    /\ m_ncope = 0
    /\ m_pc = 0
    /\ m_x = 0
    /\ m_a = 0
    /\ m_cc = 0
    /\ m_s = SP_MASK
    /\ m_pending_interrupts = 0
    /\ m_irq_state = [l \in {M68HC05_IRQ_LINE} |-> CLEAR_LINE]
    /\ m_icount = 0
    /\ mem = [addr \in SP_LOW .. SP_MASK |-> \h00]
    /\ last = NoCall
    /\ events = <<>>
    /\ fatal = FALSE
    /\ steps = 0
    /\ hist = NoHistory

\* an MC68HC705C8A with the non-programmable COP enabled in its mask option
\* cell, started
C8A == [stage |-> "started", variant |-> "c8a", rom_fff1 |-> \h01]

\* the device dev after construction, device_start() and the first
\* device_reset()
StartedAs(dev) ==
    /\ device = dev
    /\ m_port_bits = [p \in 0 .. PORT_COUNT - 1 |-> IF p = 3 THEN \hbf ELSE \hff]
    /\ m_port_input = [p \in 0 .. PORT_COUNT - 1 |-> \hff]
    /\ m_port_latch = [p \in 0 .. PORT_COUNT - 1 |-> \hff]
    /\ m_port_ddr = [p \in 0 .. PORT_COUNT - 1 |-> \h00]
    /\ pins = [p \in 0 .. PORT_COUNT - 1 |-> \hff]
    /\ m_tcap_state = FALSE
    /\ m_tcr = \h00
    /\ m_tsr = \h00
    /\ m_tsr_seen = \h00
    /\ m_prescaler = \h00
    /\ m_counter = \hfffc
    /\ m_icr = \h0000
    /\ m_ocr = \h0000
    /\ m_inhibit_cap = FALSE
    /\ m_inhibit_cmp = FALSE
    /\ m_trl_buf = [c \in 0 .. 1 |-> \hfc]
    /\ m_trl_latched = [c \in 0 .. 1 |-> FALSE]
    /\ m_pcop_cnt = 0
    /\ m_ncop_cnt = 0
    /\ m_coprst = \h00
    /\ m_copcr = \h00
    /\ m_ncope = IF dev.variant = "c8a" /\ dev.rom_fff1 # 0 THEN 1 ELSE 0
    /\ m_pc = rm16(M68HC05_VECTOR_RESET)
    /\ m_x = 0
    /\ m_a = 0
    /\ m_cc = IFLAG
    /\ m_s = SP_MASK
    /\ m_pending_interrupts = 0
    /\ m_irq_state = [l \in {M68HC05_IRQ_LINE} |-> CLEAR_LINE]
    /\ m_icount = 0
    /\ mem = [addr \in SP_LOW .. SP_MASK |-> \h00]
    /\ last = NoCall
    /\ events = <<>>
    /\ fatal = FALSE
    /\ steps = 0
    /\ hist = NoHistory

Init == StartedAs(C8A)

\* a behaviour makes at most max handler calls, and none after a fatal error
Ready(max) == steps < max /\ ~fatal

(***************************************************************************)
(* The timer under program and debugger accesses, capture-line events,     *)
(* cycle accounting and resets.                                            *)
(***************************************************************************)
TcrData == {\h00, \hff}

OcrData == {\hff, \hfe}

TimerBurn == {16, 40}

TimerNext ==
    \/ /\ Ready(MaxStepsTimer)
       /\ \E data \in TcrData : tcr_w(data)
    \/ /\ Ready(MaxStepsTimer)
       /\ \E dbg \in BOOLEAN : tsr_r(dbg)
    \/ /\ Ready(MaxStepsTimer)
       /\ \E offset \in 0 .. 1, dbg \in BOOLEAN : icr_r(offset, dbg)
    \/ /\ Ready(MaxStepsTimer)
       /\ \E offset \in 0 .. 1, dbg \in BOOLEAN : ocr_r(offset, dbg)
    \/ /\ Ready(MaxStepsTimer)
       /\ \E offset \in 0 .. 1, data \in OcrData, dbg \in BOOLEAN :
              ocr_w(offset, data, dbg)
    \* TRL and ATRL; SpecCount has the reads of the high bytes
    \/ /\ Ready(MaxStepsTimer)
       /\ \E offset \in {1, 3}, dbg \in BOOLEAN : timer_r(offset, dbg)
    \/ /\ Ready(MaxStepsTimer)
       /\ \E count \in TimerBurn : BurnCycles(count)
    \/ /\ Ready(MaxStepsTimer)
       /\ \E state \in 0 .. 1 :
              execute_set_input(M68HC05_TCAP_LINE, state)
    \/ /\ Ready(MaxStepsTimer)
       /\ device_reset

SpecTimer == Init /\ [][TimerNext]_vars

(***************************************************************************)
(* The COP watchdogs under register accesses, cycle accounting and resets. *)
(***************************************************************************)
CoprstData == {\h55, \haa, \h00}

CopcrData == {\h00, \h04, \h05, \h0f, \hfb}

CopBurn == {1, (2 ^ 15) - 1, 2 ^ 16, 2 ^ 20}

CopNext ==
    \/ /\ Ready(MaxStepsCop)
       /\ \E data \in CoprstData : coprst_w(data)
    \/ /\ Ready(MaxStepsCop)
       /\ \E dbg \in BOOLEAN : copcr_r(dbg)
    \/ /\ Ready(MaxStepsCop)
       /\ \E data \in CopcrData : copcr_w(data)
    \/ /\ Ready(MaxStepsCop)
       /\ \E data \in 0 .. 1 : copr_w(data)
    \/ /\ Ready(MaxStepsCop)
       /\ \E count \in CopBurn : BurnCycles(count)
    \/ /\ Ready(MaxStepsCop)
       /\ device_reset

SpecCop == Init /\ [][CopNext]_vars

(***************************************************************************)
(* Interrupt service at instruction boundaries, with the line inputs and   *)
(* timer events that make interrupts pending.                              *)
(***************************************************************************)
IntBurn == {64}

IntNext ==
    \/ /\ Ready(MaxStepsInt)
       /\ interrupt
    \/ /\ Ready(MaxStepsInt)
       /\ cli
    \/ /\ Ready(MaxStepsInt)
       /\ \E r \in RegisterFiles : run_instructions(r)
    \/ /\ Ready(MaxStepsInt)
       /\ \E line \in {M68HC05_IRQ_LINE, M68HC05_TCAP_LINE},
             state \in 0 .. 1 :
              execute_set_input(line, state)
    \/ /\ Ready(MaxStepsInt)
       /\ \E data \in TcrData : tcr_w(data)
    \/ /\ Ready(MaxStepsInt)
       /\ \E count \in IntBurn : BurnCycles(count)
    \/ /\ Ready(MaxStepsInt)
       /\ \E dbg \in {FALSE} : tsr_r(dbg)
    \/ /\ Ready(MaxStepsInt)
       /\ \E offset \in {1}, dbg \in {FALSE} : icr_r(offset, dbg)

SpecInt == Init /\ [][IntNext]_vars

(***************************************************************************)
(* Debugger and program reads of every register whose read handler has     *)
(* side effects, in the states that the events before them set up.         *)
(***************************************************************************)
DbgBurn == {2 ^ 16}

PinLevels == {\h00, \ha5}

DbgNext ==
    \/ /\ Ready(MaxStepsDbg)
       /\ \E dbg \in BOOLEAN : tsr_r(dbg)
    \/ /\ Ready(MaxStepsDbg)
       /\ \E offset \in 0 .. 1, dbg \in BOOLEAN : icr_r(offset, dbg)
    \/ /\ Ready(MaxStepsDbg)
       /\ \E offset \in 0 .. 1, dbg \in BOOLEAN : ocr_r(offset, dbg)
    \/ /\ Ready(MaxStepsDbg)
       /\ \E offset \in 0 .. 3, dbg \in BOOLEAN : timer_r(offset, dbg)
    \/ /\ Ready(MaxStepsDbg)
       /\ \E dbg \in BOOLEAN : copcr_r(dbg)
    \/ /\ Ready(MaxStepsDbg)
       /\ \E offset \in {0, 3}, dbg \in BOOLEAN : port_r(offset, dbg)
    \/ /\ Ready(MaxStepsDbg)
       /\ \E offset \in {0}, dbg \in BOOLEAN : port_ddr_r(offset, dbg)
    \/ /\ Ready(MaxStepsDbg)
       /\ \E data \in {\h04} : copcr_w(data)
    \/ /\ Ready(MaxStepsDbg)
       /\ \E count \in DbgBurn : BurnCycles(count)
    \/ /\ Ready(MaxStepsDbg)
       /\ \E state \in {1} : execute_set_input(M68HC05_TCAP_LINE, state)
    \/ /\ Ready(MaxStepsDbg)
       /\ \E data \in {\hff} : tcr_w(data)
    \/ /\ Ready(MaxStepsDbg)
       /\ \E offset \in {0, 3}, levels \in PinLevels : drive_pins(offset, levels)
    \/ /\ Ready(MaxStepsDbg)
       /\ \E offset \in {0}, data \in {\h0f} : port_ddr_w(offset, data)

SpecDbg == Init /\ [][DbgNext]_vars

(***************************************************************************)
(* The free-running counter under cycle accounting and reads of its two    *)
(* readout channels, from the state after reset.                           *)
(***************************************************************************)
CountBurn == {4, 12, 32, 64}

CountNext ==
    \/ /\ Ready(MaxStepsCount)
       /\ \E count \in CountBurn : BurnCycles(count)
    \/ /\ Ready(MaxStepsCount)
       /\ \E offset \in 0 .. 3, dbg \in BOOLEAN : timer_r(offset, dbg)
    \/ /\ Ready(MaxStepsCount)
       /\ \E dbg \in {FALSE} : tsr_r(dbg)

SpecCount == Init /\ [][CountNext]_vars

(***************************************************************************)
(* The digital I/O ports under program accesses, changes of the pin levels *)
(* and resets: one port with a bound input callback and unwired bits, one  *)
(* without an input callback.                                              *)
(***************************************************************************)
PortsUsed == {2, 3}

LatchData == {\h00, \h7c}

DdrData == {\h0f, \hff}

PortNext ==
    \/ /\ Ready(MaxStepsPort)
       /\ \E offset \in PortsUsed \cup {7}, dbg \in {FALSE} : port_r(offset, dbg)
    \/ /\ Ready(MaxStepsPort)
       /\ \E offset \in PortsUsed, data \in LatchData :
              port_latch_w(offset, data)
    \/ /\ Ready(MaxStepsPort)
       /\ \E offset \in PortsUsed, data \in DdrData : port_ddr_w(offset, data)
    \/ /\ Ready(MaxStepsPort)
       /\ \E offset \in PortsUsed, levels \in PinLevels :
              drive_pins(offset, levels)
    \/ /\ Ready(MaxStepsPort)
       /\ device_reset

SpecPort == Init /\ [][PortNext]_vars

(***************************************************************************)
(* Properties.  A step's handler call is last' and its pre-state the       *)
(* unprimed variables.                                                     *)
(***************************************************************************)
ICF == 7

OCF == 6

TOF == 5

StatusFlags == {ICF, OCF, TOF}

\* the step is a program access to the low register paired with flag `bit':
\* ICRL read for ICF, OCRL read or write for OCF, TRL (not ATRL) read for TOF
PairedAccess(call, bit) ==
    /\ ~call.dbg
    /\ CASE bit = ICF -> call.op = "icr_r" /\ BIT(call.offset, 0) = 1
         [] bit = OCF -> call.op \in {"ocr_r", "ocr_w"} /\ BIT(call.offset, 0) = 1
         [] bit = TOF -> call.op = "timer_r" /\ BIT(call.offset, 0) = 1
                         /\ BIT(call.offset, 1) = 0

C1_Step ==
    \* a program read of TSR returns the status, clears no flag, leaves the
    \* pending interrupts alone and marks exactly the set flags as seen
    /\ Program(last', "tsr_r") =>
           /\ m_tsr' = m_tsr
           /\ m_pending_interrupts' = m_pending_interrupts
           /\ m_tsr_seen' = m_tsr
           /\ last'.ret = m_tsr
    /\ \A bit \in StatusFlags :
           \* a flag is cleared only by its paired access, made with the seen
           \* bit set
           /\ (BIT(m_tsr, bit) = 1 /\ BIT(m_tsr', bit) = 0) =>
                  PairedAccess(last', bit) /\ BIT(m_tsr_seen, bit) = 1
           \* the paired access with the seen bit clear leaves the flag set
           /\ (PairedAccess(last', bit) /\ BIT(m_tsr_seen, bit) = 0
                   /\ BIT(m_tsr, bit) = 1) =>
                  BIT(m_tsr', bit) = 1
           \* a seen bit is set only by a program read of TSR
           /\ (BIT(m_tsr_seen, bit) = 0 /\ BIT(m_tsr_seen', bit) = 1) =>
                  Program(last', "tsr_r")

\* C1: a program read of the timer status register clears no status flag and
\* leaves the pending-interrupt mask unchanged, marking the set flags as seen;
\* a status flag is cleared only by a program access to its own paired low
\* register made while its seen bit, set by an earlier status read, is set, and
\* the same access with the seen bit clear leaves the flag set.
C1_StatusReadMarksPairedAccessClears == [][C1_Step]_vars

\* C1 witness: a program read of TRL found TOF set but not yet seen, and left
\* it set (timer_r neither sets TOF nor clears a seen bit of a set flag).
C1_Witness ==
    /\ PairedAccess(last, TOF)
    /\ BIT(m_tsr, TOF) = 1
    /\ BIT(m_tsr_seen, TOF) = 0

C2_Step ==
    \* the counter has been advanced past the written compare value: OCF is set
    /\ hist'.round_trip = 2 => BIT(m_tsr', OCF) = 1
    \* the status read returns OCF, leaves it set and marks it seen
    /\ hist'.round_trip = 3 =>
           /\ BIT(m_tsr', OCF) = 1
           /\ BIT(last'.ret, OCF) = 1
           /\ BIT(m_tsr_seen', OCF) = 1
    \* the read of OCRL clears OCF
    /\ hist'.round_trip = 4 =>
           /\ BIT(m_tsr', OCF) = 0
           /\ BIT(m_tsr_seen', OCF) = 0
           /\ last'.ret = u8(m_ocr)
    \* a further program read of OCRL, with no status read since the one
    \* before, changes nothing
    /\ (Program(last', "ocr_r") /\ BIT(last'.offset, 0) = 1
            /\ hist.ocrl_reads >= 1) =>
           UNCHANGED <<m_tsr, m_tsr_seen, m_inhibit_cap, m_inhibit_cmp,
                       m_pending_interrupts>>

\* C2: output-compare round trip: after a compare value is written and
\* burn_cycles advances the counter past it OCF is set; a status read leaves it
\* set and marks it seen; a program read of OCRL then clears OCF; a second read
\* of OCRL with no status read in between changes neither the status, the seen
\* bits, the inhibit flags nor the pending-interrupt mask.
C2_OutputCompareRoundTrip == [][C2_Step]_vars

\* C2 witness: the whole round trip has been made, the second OCRL read last.
C2_Witness == hist.round_trip = 5 /\ hist.ocrl_reads = 2

\* the register reads whose handlers have side effects: TSR, ICRH/ICRL, OCRL,
\* TRH/TRL, ATRH/ATRL, COPCR and the port data registers
SideEffectReads == {"tsr_r", "icr_r", "ocr_r", "timer_r", "copcr_r", "port_r"}

\* C3: a debugger-access read of a register whose read has side effects leaves
\* all device state unchanged (seen bits, inhibit flags, latch-pending flags and
\* buffers, status bits including COPF, cached port input, pending-interrupt
\* mask), so a following normal read behaves as if it had not occurred.
C3_DebuggerReadsChangeNothing ==
    [][(last'.dbg /\ last'.op \in SideEffectReads) => UNCHANGED deviceVars]_vars

\* the step is a write of 0xaa to COPRST directly after a write of 0x55
CompletesSequence(call, h) ==
    call.op = "coprst_w" /\ call.data = \haa /\ h.coprst_written = \h55

\* C4: a write to the reset-arm register changes the programmable watchdog
\* counter only if it is 0xaa and the write to the register immediately before
\* it was 0x55; any other write (another byte, 0xaa not directly preceded by
\* 0x55, or 0xaa after 0x55 and some other byte) leaves the counter unaffected.
C4_ArmingNeedsExactSequence ==
    [][(last'.op = "coprst_w" /\ m_pcop_cnt' # m_pcop_cnt)
           => CompletesSequence(last', hist)]_vars

\* C5 as stated: directly after the 0xaa write that completes a 0x55, 0xaa
\* sequence the low 15 bits of the programmable watchdog counter are zero.
C5_ClearsLow15Bits ==
    (last.op = "coprst_w" /\ last.data = \haa /\ hist.coprst_before = \h55)
        => And(m_pcop_cnt, \h7fff) = 0

\* C5 (amended): the 0xaa write that completes a 0x55, 0xaa sequence clears
\* bits 15 and up of the programmable watchdog counter and keeps its low 15
\* bits: the counter becomes its old value modulo 2^15.
C5_ClearsBits15Up ==
    [][CompletesSequence(last', hist)
           => m_pcop_cnt' = m_pcop_cnt % (2 ^ 15)]_vars

\* C5 witness: a completed sequence on a counter that had bits 15 and 16 set
\* (the cycles are those the non-programmable counter still shows) and low
\* bits set, of which only the low bits are left.
C5_Witness ==
    /\ last.op = "coprst_w" /\ last.data = \haa /\ hist.coprst_before = \h55
    /\ m_ncop_cnt = (2 ^ 16) + (2 ^ 15) - 1
    /\ m_pcop_cnt = (2 ^ 15) - 1

\* burn_cycles pulsed the reset line for the programmable watchdog
PcopReset(evs) ==
    \E i \in 1 .. Len(evs) : evs[i].cb = "reset" /\ evs[i].tag = "PCOP"

\* the timeout selected by the CM field of a COPCR value
Timeout(copcr) == 2 ^ (15 + 2 * (copcr % 4))

\* C6 as stated: the programmable watchdog fires in a cycle-accounting step
\* only if it is enabled and the cycles accumulated since the last successful
\* clear sequence (or the start) have reached the timeout 2^(15+2*CM).
C6_FiresAfterFullTimeoutOnly ==
    (last.op = "burn_cycles" /\ PcopReset(events))
        => (copcr_pcope /\ hist.pcop_cycles >= Timeout(m_copcr))

C6_Step ==
    LET count == last'.data
        T     == Timeout(m_copcr)
        fires == BIT(m_copcr, 2) = 1 /\ (m_pcop_cnt % T) + count >= T
    IN  last'.op = "burn_cycles" =>
            \* it fires exactly when enabled and the low 15+2*CM bits of the
            \* counter plus the cycles of the step reach the timeout
            /\ PcopReset(events') <=> fires
            /\ fires => BIT(m_copcr', 4) = 1
            /\ ~fires => m_copcr' = m_copcr
            /\ m_pcop_cnt' = (m_pcop_cnt + count) % (2 ^ 21)
            \* scenario: CM = 0, enabled, counter at 0
            /\ (BIT(m_copcr, 2) = 1 /\ m_copcr % 4 = 0 /\ m_pcop_cnt = 0
                    /\ count = (2 ^ 15) - 1) => ~PcopReset(events')
            /\ (BIT(m_copcr, 2) = 1 /\ m_copcr % 4 = 0
                    /\ m_pcop_cnt = (2 ^ 15) - 1 /\ count = 1) =>
                   PcopReset(events') /\ BIT(m_copcr', 4) = 1

\* C6 (amended): the programmable watchdog fires (pulses reset, sets COPF) in
\* a cycle-accounting step iff it is enabled and the cycles held in the low
\* 15+2*CM bits of its free-running counter plus the cycles of the step reach
\* 2^(15+2*CM); a successful clear sequence zeroes only bits 15 and up of the
\* counter, so it restarts the timeout only up to the cycles in the low 15
\* bits.  With CM = 0, enabled and the counter at 0, 2^15-1 cycles do not fire
\* the watchdog and 1 more cycle pulses reset and sets COPF.
C6_FiresWhenLowBitsReachTimeout == [][C6_Step]_vars

\* C6 witness: the end of the scenario: CM = 0, 2^15-1 cycles and then 1 cycle
\* charged from the start, reset pulsed and COPF set.
C6_Witness ==
    /\ last.op = "burn_cycles" /\ last.data = 1
    /\ copcr_pcope /\ copcr_cm = 0
    /\ m_pcop_cnt = 2 ^ 15
    /\ m_ncop_cnt = 2 ^ 15
    /\ PcopReset(events) /\ copcr_copf

\* interrupt() serviced an interrupt: it loaded the program counter from the
\* vector it returns in the call record
Serviced(call) == call.op = "interrupt" /\ call.ret # 0

IrqPending(mask) == BIT(mask, M68HC05_IRQ_LINE) = 1

TimerPending(mask) == BIT(mask, M68HC05_TCAP_LINE) = 1

Masked(cc) == BIT(cc, 3) = 1

\* C7: with the external interrupt line and the timer interrupt both pending
\* and the I flag clear, interrupt() services the external line first (PC comes
\* from the external-interrupt vector, not the timer vector) and sets I; while
\* I stays set no later interrupt() call services anything.
C7_ExternalLineFirst ==
    [][last'.op = "interrupt" =>
           /\ (IrqPending(m_pending_interrupts)
                   /\ TimerPending(m_pending_interrupts) /\ ~Masked(m_cc)) =>
                  /\ m_pc' = rm16(M68HC05_VECTOR_INT)
                  /\ Masked(m_cc')
           /\ Masked(m_cc) => (~Serviced(last') /\ m_pc' = m_pc)]_vars

\* the five stack slots a push sequence starting at stack pointer s uses
StackSlot(s, n) ==
    LET size == SP_MASK - SP_LOW + 1
    IN  SP_LOW + ((s - SP_LOW + size - n) % size)

C8_Step ==
    LET ready == /\ (IrqPending(m_pending_interrupts)
                        \/ TimerPending(m_pending_interrupts))
                 /\ ~Masked(m_cc)
    IN  last'.op = "interrupt" =>
            \* without a pending bit, or with I set, nothing changes at all
            /\ ~ready => (UNCHANGED <<deviceVars, fatal>> /\ events' = <<>>)
            /\ Serviced(last') => ready
            \* one call services one source: one acknowledge, one stack
            \* frame, one vector, one charge of 10 cycles
            /\ Serviced(last') =>
                   /\ Cardinality({i \in 1 .. Len(events') :
                                       events'[i].cb = "irq_ack"}) = 1
                   /\ m_s' = StackSlot(m_s, 5)
                   /\ m_icount' = m_icount - 10
                   /\ last'.ret \in {M68HC05_VECTOR_TIMER, M68HC05_VECTOR_INT}

\* C8: interrupt() services an interrupt only if a bit of the pending-interrupt
\* mask is set and the I flag is clear; otherwise it changes no state (nothing
\* pushed, PC unchanged, no cycles charged, timer and watchdog counters
\* unchanged).  A call services at most one pending source.
C8_ServiceOnlyPendingUnmasked == [][C8_Step]_vars

\* C8 witness: interrupt() was called with the timer interrupt pending and the
\* I flag set, and serviced nothing.
C8_Witness ==
    /\ last.op = "interrupt" /\ ~Serviced(last) /\ ~fatal
    /\ TimerPending(m_pending_interrupts)
    /\ Masked(m_cc)
    /\ events = <<>>

C9_Step ==
    Serviced(last') =>
        \* PC (low byte at the higher address), X, A, CC as it was before
        /\ mem'[StackSlot(m_s, 0)] = m_pc % 256
        /\ mem'[StackSlot(m_s, 1)] = m_pc \div 256
        /\ mem'[StackSlot(m_s, 2)] = m_x
        /\ mem'[StackSlot(m_s, 3)] = m_a
        /\ mem'[StackSlot(m_s, 4)] = m_cc
        /\ \A addr \in SP_LOW .. SP_MASK :
               addr \notin {StackSlot(m_s, n) : n \in 0 .. 4} =>
                   mem'[addr] = mem[addr]
        /\ m_s' = StackSlot(m_s, 5)
        /\ m_x' = m_x /\ m_a' = m_a
        \* I is set afterwards, PC comes from the vector of the source
        /\ ~Masked(m_cc) /\ m_cc' = m_cc + IFLAG
        /\ m_pc' = rdmem(last'.ret) * 256 + rdmem(last'.ret + 1)
        /\ TimerPending(m_pending_interrupts) =>
               last'.ret = M68HC05_VECTOR_TIMER
        \* 10 cycles are charged to the budget, the timer and both watchdogs
        /\ m_icount' = m_icount - 10
        /\ m_prescaler' = (m_prescaler + 10) % 16
        /\ m_counter' = (m_counter + ((m_prescaler + 10) \div 16)) % (2 ^ 16)
        /\ m_pcop_cnt' = (m_pcop_cnt + 10) % (2 ^ 21)
        /\ m_ncop_cnt' = (m_ncop_cnt + 10) % (2 ^ 17)

\* C9: a servicing interrupt() pushes PC (16 bits), the index register, the
\* accumulator and the condition-code register as it was before I is set, in
\* this order, then sets I, loads PC from the vector of the serviced source and
\* charges 10 cycles: the cycle budget drops by 10 and the timer
\* prescaler/counter and both watchdog counters advance by exactly 10 cycles.
C9_ServicePushesAndCharges == [][C9_Step]_vars

\* C9 witness: the timer interrupt has been serviced with the stack pointer at
\* 0xc2, so the frame wraps from the floor of the stack window to its top.
C9_Witness ==
    /\ Serviced(last)
    /\ m_pc = rm16(M68HC05_VECTOR_TIMER)
    /\ m_s = \hfd
    /\ mem[\hc2] = \h42 /\ mem[\hc1] = \h1e /\ mem[\hc0] = \h07
    /\ mem[\hff] = \h3c /\ mem[\hfe] = \he6
    /\ m_cc = \he6 + IFLAG

\* the source an interrupt() call services when the external line has priority
\* over the timer
PrioritySource(mask) ==
    IF IrqPending(mask) THEN M68HC05_IRQ_LINE ELSE M68HC05_TCAP_LINE

\* C10: after interrupt() services a source, that source's pending bit is clear
\* unless its enabling condition still holds (the line still asserted, or a
\* timer flag still set with its interrupt enabled); a pending bit set by
\* asserting the external interrupt line does not stay set once the interrupt
\* has been serviced and the line released.
C10_ServicedSourceCleared ==
    [][Serviced(last') =>
           LET src == PrioritySource(m_pending_interrupts)
           IN  \/ BIT(m_pending_interrupts', src) = 0
               \/ /\ src = M68HC05_IRQ_LINE
                  /\ m_irq_state'[M68HC05_IRQ_LINE] = ASSERT_LINE
               \/ /\ src = M68HC05_TCAP_LINE
                  /\ And(And(m_tcr', m_tsr'), \he0) # 0]_vars

\* C11: when interrupt() finds a pending bit inside the interrupt mask with the
\* I flag clear, and the pending bits match no source that has a handler, it
\* raises a fatal error: no vector is loaded and the call is not ignored.  A
\* fatal error arises in no other situation.
C11_UnhandledPendingIsFatal ==
    [][last'.op = "interrupt" =>
           LET unhandled == /\ And(m_pending_interrupts, M68HC05_INT_MASK) # 0
                            /\ ~Masked(m_cc)
                            /\ ~TimerPending(m_pending_interrupts)
           IN  /\ unhandled => (fatal' /\ ~Serviced(last') /\ m_pc' = m_pc)
               /\ fatal' => unhandled]_vars

\* C11 witness: interrupt() has raised the fatal error with only the external
\* line's bit pending.
C11_Witness ==
    /\ fatal
    /\ last.op = "interrupt"
    /\ IrqPending(m_pending_interrupts)
    /\ ~TimerPending(m_pending_interrupts)

\* the calls of callback cb in a list of events
Calls(evs, cb) == {i \in 1 .. Len(evs) : evs[i].cb = cb}

\* prescaled ticks a cycle-accounting step of count cycles adds to the counter
Ticks(count) == (count + m_prescaler) \div 16

C12_Step ==
    last'.op = "burn_cycles" =>
        LET crossing == /\ m_counter < m_ocr
                        /\ m_ocr <= m_counter + Ticks(last'.data)
        IN  IF crossing /\ ~m_inhibit_cmp
            THEN /\ BIT(m_tsr', OCF) = 1
                 /\ Cardinality(Calls(events', "tcmp")) = 1
                 /\ \A i \in Calls(events', "tcmp") :
                        events'[i].arg = BIT(m_tcr, 0)
                 /\ BIT(m_tcr, 6) = 1 => TimerPending(m_pending_interrupts')
            ELSE /\ BIT(m_tsr', OCF) = BIT(m_tsr, OCF)
                 /\ Calls(events', "tcmp") = {}

\* C12: in a cycle-accounting step that advances the counter from c to c+k
\* with c < OCR <= c+k and compare not inhibited, OCF is set, the
\* compare-output callback is invoked exactly once with the level of OLVL, and
\* the timer interrupt becomes pending if OCIE is set; when compare is
\* inhibited or no such crossing happens, OCF is not newly set and the callback
\* is not invoked.
C12_CompareMatchSetsFlagAndDrivesOutput == [][C12_Step]_vars

\* C12 witness: a cycle-accounting step has just matched the compare register
\* with OCIE and OLVL set: OCF is set, the callback got level 1 and the timer
\* interrupt is pending.
C12_Witness ==
    /\ last.op = "burn_cycles"
    /\ events = <<Event("tcmp", 1, "")>>
    /\ BIT(m_tsr, OCF) = 1
    /\ BIT(m_tcr, 6) = 1
    /\ TimerPending(m_pending_interrupts)
    /\ m_ocr = \hfffe /\ m_counter = \hfffe

\* C13: with the free-running counter at 0xfffe, a cycle-accounting step of 4
\* cycles leaves the counter in 0x0000 .. 0x0002 and sets the timer-overflow
\* flag.
C13_RolloverAfterFourCycles ==
    [][(last'.op = "burn_cycles" /\ last'.data = 4 /\ m_counter = \hfffe)
           => (m_counter' \in 0 .. 2 /\ BIT(m_tsr', TOF) = 1)]_vars

\* the counter and prescaler that cycles accounted cycles lead to from the
\* counter value start and an empty prescaler
CounterAfter(start, cycles) == (start + (cycles \div 16)) % (2 ^ 16)

PrescalerAfter(cycles) == cycles % 16

\* In SpecCount nothing writes COPRST and nothing resets the device, so
\* hist.pcop_cycles is the number of cycles accounted since the start, where
\* the counter is 0xfffc and the prescaler 0.
C14_Step ==
    last'.op = "burn_cycles" =>
        LET n == last'.data
            wraps == m_counter + ((n + m_prescaler) \div 16) >= \h10000
        IN  /\ m_counter' = (m_counter + ((n + m_prescaler) \div 16)) % (2 ^ 16)
            /\ m_prescaler' = (n + m_prescaler) % 16
            \* the calls so far amount to one call with the sum of their cycles
            /\ m_counter' = CounterAfter(\hfffc, hist'.pcop_cycles)
            /\ m_prescaler' = PrescalerAfter(hist'.pcop_cycles)
            /\ BIT(m_tsr', TOF) = (IF wraps THEN 1 ELSE BIT(m_tsr, TOF))

C15_Step ==
    LET low == BIT(last'.offset, 0) = 1
    IN  /\ (hist.cap_window /\ last'.op = "execute_set_input") =>
               (m_icr' = m_icr /\ BIT(m_tsr', ICF) = BIT(m_tsr, ICF))
        /\ (hist.cmp_window /\ last'.op = "burn_cycles") =>
               (BIT(m_tsr', OCF) = BIT(m_tsr, OCF)
                    /\ Calls(events', "tcmp") = {})
        /\ (Program(last', "icr_r") /\ low) => ~m_inhibit_cap'
        /\ (Program(last', "ocr_w") /\ low) => ~m_inhibit_cmp'

C16_Step ==
    (last'.op = "execute_set_input" /\ last'.offset = M68HC05_TCAP_LINE) =>
        LET level == last'.data # 0
            captures == /\ level # m_tcap_state
                        /\ level = (BIT(m_tcr, 1) = 1)
                        /\ ~m_inhibit_cap
        IN  /\ IF captures
               THEN /\ m_icr' = m_counter
                    /\ BIT(m_tsr', ICF) = 1
                    /\ BIT(m_tcr, 7) = 1 => TimerPending(m_pending_interrupts')
               ELSE /\ m_icr' = m_icr
                    /\ BIT(m_tsr', ICF) = BIT(m_tsr, ICF)
            /\ m_tcap_state' = level

\* C16: a capture-line event whose level differs from the recorded level and
\* equals IEDG, delivered while capture is not inhibited, copies the counter
\* into the capture register, sets ICF at once and makes the timer interrupt
\* pending if ICIE is set; any other capture-line event leaves the capture
\* register and ICF unchanged.  Every event updates the recorded level.
C16_InputCapture == [][C16_Step]_vars

\* C16 witness: a rising edge with IEDG and ICIE set has captured the counter
\* value 0xfffd.
C16_Witness ==
    /\ last.op = "execute_set_input"
    /\ last.data = 1
    /\ m_tcap_state
    /\ m_icr = \hfffd /\ m_counter = \hfffd
    /\ BIT(m_tsr, ICF) = 1
    /\ BIT(m_tcr, 7) = 1
    /\ TimerPending(m_pending_interrupts)

\* the program reads the low byte of the channel whose high byte it read last,
\* with only cycle accounting in between
CompletesPair(call, h) ==
    /\ Program(call, "timer_r")
    /\ BIT(call.offset, 0) = 1
    /\ h.pair_chan = BIT(call.offset, 1)

\* a program read of a high byte returns the high byte of the counter
HighByteRead ==
    (Program(last', "timer_r") /\ BIT(last'.offset, 0) = 0)
        => last'.ret = m_counter \div 256

\* C17 as stated: for each readout channel, a program read of the high byte
\* followed by a program read of the low byte of the same channel, with any
\* number of cycle-accounting steps in between, returns two bytes that together
\* are the counter value at the read of the high byte.
C17_ReadoutNeverTorn ==
    [][/\ HighByteRead
       /\ CompletesPair(last', hist) =>
              last'.ret = hist.pair_counter % 256]_vars

\* C17 amended: the same, for a read of the high byte made when no earlier read
\* of that high byte is still waiting for its low byte (the channel's
\* latch-pending flag is clear).
C17_ReadoutNotTornFromFreshLatch ==
    [][/\ HighByteRead
       /\ (CompletesPair(last', hist) /\ hist.pair_fresh) =>
              last'.ret = hist.pair_counter % 256]_vars

\* C17 witness: TRH was read at counter 0xfffc with no read outstanding, the
\* counter then wrapped to 0x0000, and the read of TRL returned 0xfc.
C17_Witness ==
    /\ hist.pair_chan = 2
    /\ hist.pair_fresh
    /\ hist.pair_counter = \hfffc
    /\ m_counter = \h0000
    /\ Program(last, "timer_r") /\ last.offset = 1
    /\ last.ret = \hfc

COPF == 4

C18_Step ==
    /\ (last'.op = "burn_cycles" /\ PcopReset(events')) =>
           BIT(m_copcr', COPF) = 1
    /\ last'.op = "copcr_r" =>
           (BIT(last'.ret, COPF) = BIT(m_copcr, COPF)
                /\ BIT(m_copcr', COPF) = 0)
    /\ (last'.op # "copcr_r" /\ BIT(m_copcr, COPF) = 1) =>
           BIT(m_copcr', COPF) = 1
    /\ (last.op = "copcr_r" /\ last'.op = "copcr_r") =>
           BIT(last'.ret, COPF) = 0

\* C18: once the programmable watchdog has fired, COPF (bit 4 of COPCR) stays
\* set through the device reset that follows and through any COPCR write, until
\* COPCR is read; that read returns the bit set and clears it, and the next
\* read returns it clear.
C18_CopfLatchedUntilRead == [][C18_Step]_vars

\* C18 witness: the watchdog fired, the device was reset (which is what clears
\* PCOPE), and a read of COPCR has returned COPF set and cleared it.
C18_Witness ==
    /\ last.op = "copcr_r"
    /\ last.ret = \h10
    /\ m_copcr = \h00
    /\ m_ncop_cnt = 0
    /\ m_pcop_cnt >= 2 ^ 15

\* the non-programmable watchdog forces a reset
NcopReset(evs) ==
    \E i \in 1 .. Len(evs) : evs[i].cb = "reset" /\ evs[i].tag = "NCOP"

\* C19 as stated: writing COPR with bit 0 clear zeroes the 17-bit counter and
\* disables the non-programmable watchdog, so that no cycle-accounting step
\* forces a reset on its behalf until it is enabled again; while it is active,
\* reaching 2^17 accumulated cycles forces a pulsed reset and changes no status
\* bit.
C19_ClearingBitDisablesNcop ==
    [][/\ (last'.op = "copr_w" /\ BIT(last'.data, 0) = 0) => m_ncop_cnt' = 0
       /\ (last'.op = "burn_cycles" /\ hist.ncop_off) => ~NcopReset(events')
       /\ (last'.op = "burn_cycles" /\ ~hist.ncop_off) =>
              /\ NcopReset(events') <=> m_ncop_cnt + last'.data >= 2 ^ 17
              /\ (NcopReset(events') /\ ~PcopReset(events')) =>
                     m_copcr' = m_copcr]_vars

C19_Step ==
    /\ last'.op = "copr_w" =>
           /\ m_ncop_cnt' = IF BIT(last'.data, 0) = 0 THEN 0 ELSE m_ncop_cnt
           /\ m_ncope' = m_ncope
    /\ (last'.op = "burn_cycles" /\ m_ncope = 1) =>
           /\ NcopReset(events') <=> m_ncop_cnt + last'.data >= 2 ^ 17
           /\ m_ncop_cnt' = (m_ncop_cnt + last'.data) % (2 ^ 17)
           /\ (NcopReset(events') /\ ~PcopReset(events')) => m_copcr' = m_copcr

\* C19 amended: writing COPR with bit 0 clear zeroes the 17-bit counter and
\* does nothing else; the watchdog keeps counting after it.  While the
\* watchdog is enabled, every cycle-accounting step in which the counter
\* reaches 2^17 forces a pulsed reset, keeps the counter modulo 2^17 and
\* changes no status bit.
C19_ClearingBitRestartsNcop == [][C19_Step]_vars

\* C19 witness: after a write of COPR with bit 0 clear, a cycle-accounting step
\* has brought the counter from 2^16 to 2^17 and forced the reset.
C19_Witness ==
    /\ hist.ncop_off
    /\ m_ncope = 1
    /\ last.op = "burn_cycles"
    /\ last.data = 2 ^ 16
    /\ NcopReset(events)
    /\ m_ncop_cnt = 0

C20_Step ==
    Program(last', "port_r") =>
        LET port  == last'.offset % PORT_COUNT
            ddr   == m_port_ddr[port]
            input == m_port_input'[port]
            reads == Calls(events', "port_r")
        IN  /\ last'.ret = Or(And(input, Not8(ddr)), And(m_port_latch[port], ddr))
            /\ IF port \in port_cb_r_bound
               THEN /\ Cardinality(reads) = 1
                    /\ \A i \in reads :
                           events'[i].mask = And(Not8(ddr), m_port_bits[port])
                    /\ input = And(pins[port], m_port_bits[port])
               ELSE /\ reads = {}
                    /\ input = m_port_input[port]

\* C20: a program read of a port (index 0..3) returns (cached input AND NOT
\* DDR) OR (output latch AND DDR), where the cached input is refreshed on that
\* read, when an input callback is bound, by calling the callback with mask
\* (NOT DDR AND physical bits) and masking its result to the physical bits,
\* and is otherwise the previously cached value.
C20_PortReadComposesInputAndLatch == [][C20_Step]_vars

\* C20 witness: port D, whose bit 6 is not wired, has half its bits as outputs
\* with latch 0x3c; the pins read 0xa5 and the read returns 0xac.
C20_Witness ==
    /\ Program(last, "port_r") /\ last.offset = 3
    /\ m_port_ddr[3] = \h0f /\ m_port_latch[3] = \h3c /\ pins[3] = \ha5
    /\ m_port_input[3] = \ha5
    /\ last.ret = \hac
    /\ events = <<PortRead(3, \hb0)>>

\* the value visible on the pins of a port, composed by the rule of C20
Visible(latch, ddr, input) == Or(And(input, Not8(ddr)), And(latch, ddr))

\* the number of calls of the output callback in a list of events
OutputCalls(evs) == Cardinality(Calls(evs, "port_w"))

\* C21 as stated: a write to a port's latch or DDR invokes the output callback
\* exactly once when it changes the value on a bit configured as output (before
\* or after the write), and does not invoke it otherwise.
C21_CallbackOnlyOnOutputChange ==
    [][last'.op \in {"port_latch_w", "port_ddr_w"} =>
           LET port    == last'.offset % PORT_COUNT
               before  == Visible(m_port_latch[port], m_port_ddr[port],
                                  m_port_input[port])
               after   == Visible(m_port_latch'[port], m_port_ddr'[port],
                                  m_port_input'[port])
               outputs == Or(m_port_ddr[port], m_port_ddr'[port])
           IN  OutputCalls(events') =
                   IF And(Xor(before, after), outputs) # 0 THEN 1 ELSE 0]_vars

C21_Step ==
    LET port == last'.offset % PORT_COUNT
        data == And(last'.data, m_port_bits[port])
    IN  /\ last'.op = "port_latch_w" =>
               OutputCalls(events') =
                   IF And(Xor(m_port_latch[port], data), m_port_ddr[port]) # 0
                   THEN 1 ELSE 0
        /\ last'.op = "port_ddr_w" =>
               OutputCalls(events') = IF data # m_port_ddr[port] THEN 1 ELSE 0

\* C21 amended: a latch write invokes the output callback exactly once when a
\* latch bit it changes is configured as output, and not otherwise; a DDR
\* write invokes it exactly once whenever the written direction (masked to the
\* physical bits) differs from the current one, whether or not the value on any
\* output changes, and not when the direction stays the same.
C21_CallbackOnLatchOutputOrDdrChange == [][C21_Step]_vars

\* C21 witness: a DDR write has turned four bits of a port into outputs whose
\* latch bits equal the input they replace; the visible value is 0xff as
\* before and the callback was invoked.
C21_Witness ==
    /\ last.op = "port_ddr_w" /\ last.offset = 2 /\ last.data = \h0f
    /\ m_port_latch[2] = \hff /\ m_port_input[2] = \hff
    /\ events = <<PortWrite(2, \hff, \h0f)>>

C22_Step ==
    last'.op = "port_latch_w" =>
        LET port   == last'.offset % PORT_COUNT
            stored == And(last'.data, m_port_bits[port])
            ddr    == m_port_ddr[port]
        IN  /\ m_port_latch' = [m_port_latch EXCEPT ![port] = stored]
            /\ events' =
                   IF And(Xor(m_port_latch[port], stored), ddr) # 0
                   THEN <<[cb |-> "port_w",
                           arg |-> Visible(stored, ddr, m_port_input[port]),
                           mask |-> ddr, tag |-> ToString(port)]>>
                   ELSE <<>>
            /\ UNCHANGED <<m_port_ddr, m_port_input>>

\* C22: a latch write of v to port p stores (v AND physical bits of p) in the
\* latch and invokes the output callback exactly when a latch bit that changed
\* is configured as output, passing the newly composed visible value and the
\* DDR; otherwise the latch is still updated and the callback is not invoked.
\* DDR and the cached input are unchanged.
C22_LatchWrite == [][C22_Step]_vars

\* C22 witness: 0x7c written to port D, whose bit 6 is not wired, with the low
\* four bits as outputs: the latch holds 0x3c and the callback got 0xfc.
C22_Witness ==
    /\ last.op = "port_latch_w" /\ last.offset = 3 /\ last.data = \h7c
    /\ m_port_latch[3] = \h3c
    /\ m_port_ddr[3] = \h0f
    /\ events = <<PortWrite(3, \hfc, \h0f)>>

(***************************************************************************)
(* Configuration, start and first reset of the device types.               *)
(***************************************************************************)
MaxStepsConfig == 5

Variants == {"c4", "c8", "c8a"}

MaskOption == {\h00, \h01}

PortBits == {\hff, \hbf}

InitConfig ==
    \E v \in Variants, o \in MaskOption :
        ConstructedAs([stage |-> "constructed", variant |-> v, rom_fff1 |-> o])

ConfigNext ==
    \/ /\ Ready(MaxStepsConfig)
       /\ \E a \in PortBits, b \in PortBits, c \in PortBits, d \in PortBits :
              set_port_bits(a, b, c, d)
    \/ /\ Ready(MaxStepsConfig)
       /\ config_complete
    \/ /\ Ready(MaxStepsConfig)
       /\ device_start
    \/ /\ Ready(MaxStepsConfig)
       /\ first_reset

SpecConfig == InitConfig /\ [][ConfigNext]_vars

\* the mask of port p that a recorded set_port_bits call carries
MaskIn(call, p) ==
    CASE p = 0 -> call.offset \div 2^8
      [] p = 1 -> call.offset % 2^8
      [] p = 2 -> call.data \div 2^8
      [] p = 3 -> call.data % 2^8

C23_Step ==
    last'.op = "set_port_bits" =>
        IF device.stage \in {"configured", "started"}
        THEN fatal' /\ m_port_bits' = m_port_bits
        ELSE /\ ~fatal'
             /\ \A p \in 0 .. PORT_COUNT - 1 :
                    m_port_bits'[p] = MaskIn(last', p)

\* C23: set_port_bits called once the device is configured or started raises
\* a fatal error and leaves the four physical-bit masks as they were; called
\* before configuration it sets the four masks to its arguments.
C23_SetPortBitsOnlyBeforeConfiguration == [][C23_Step]_vars

\* masks were set before configuration, and a call on the started device
\* failed without touching them
C23_Witness ==
    /\ last.op = "set_port_bits"
    /\ fatal
    /\ device.stage = "started"
    /\ m_port_bits[3] = \hbf
    /\ MaskIn(last, 3) = \hff

(***************************************************************************)
(* Resets of a device whose ports, timer and watchdogs are all in use.     *)
(***************************************************************************)
MaxStepsReset == 4

ResetBurn == {6, 2 ^ 16}

ResetNext ==
    \/ /\ Ready(MaxStepsReset)
       /\ tcr_w(\hff)
    \/ /\ Ready(MaxStepsReset)
       /\ tsr_r(FALSE)
    \/ /\ Ready(MaxStepsReset)
       /\ \E offset \in 0 .. 1 : icr_r(offset, FALSE)
    \/ /\ Ready(MaxStepsReset)
       /\ \E offset \in 0 .. 1 : ocr_w(offset, \h12, FALSE)
    \/ /\ Ready(MaxStepsReset)
       /\ \E offset \in {0, 2} : timer_r(offset, FALSE)
    \/ /\ Ready(MaxStepsReset)
       /\ execute_set_input(M68HC05_TCAP_LINE, 1)
    \/ /\ Ready(MaxStepsReset)
       /\ \E count \in ResetBurn : BurnCycles(count)
    \/ /\ Ready(MaxStepsReset)
       /\ coprst_w(\h55)
    \/ /\ Ready(MaxStepsReset)
       /\ copcr_w(\h0f)
    \/ /\ Ready(MaxStepsReset)
       /\ port_ddr_w(2, \h0f)
    \/ /\ Ready(MaxStepsReset)
       /\ port_latch_w(2, \h7c)
    \/ /\ Ready(MaxStepsReset)
       /\ drive_pins(0, \h5a)
    \/ /\ Ready(MaxStepsReset)
       /\ port_r(0, FALSE)
    \/ /\ Ready(MaxStepsReset)
       /\ device_reset

SpecReset == Init /\ [][ResetNext]_vars

IEDG == 1

C24_Step ==
    last'.op = "device_reset" =>
        \* reinitialized
        /\ \A p \in 0 .. PORT_COUNT - 1 : m_port_ddr'[p] = \h00
        /\ \A b \in 0 .. 7 :
               BIT(m_tcr', b) = IF b = IEDG THEN BIT(m_tcr, b) ELSE 0
        /\ m_tsr_seen' = \h00
        /\ m_prescaler' = 0
        /\ ~m_inhibit_cap' /\ ~m_inhibit_cmp'
        /\ \A c \in 0 .. 1 : ~m_trl_latched'[c] /\ m_trl_buf'[c] = \hfc
        /\ m_counter' = \hfffc
        /\ m_ncop_cnt' = 0
        /\ \A b \in 0 .. 7 :
               BIT(m_copcr', b) = IF b = COPF THEN BIT(m_copcr, b) ELSE 0
        \* kept
        /\ UNCHANGED <<m_port_input, m_port_latch>>
        /\ UNCHANGED <<m_tsr, m_icr, m_ocr, m_tcap_state>>
        /\ UNCHANGED <<m_pcop_cnt, m_coprst>>

\* C24: a device reset clears every DDR, keeps only IEDG of TCR, clears the
\* seen bits, the prescaler, both inhibit flags and both latch-pending
\* flags, sets the counter to 0xFFFC and both low-byte buffers to 0xFC,
\* zeroes the non-programmable watchdog counter and keeps only COPF in COPCR;
\* it leaves the port input caches and latches, TSR, ICR, OCR, the recorded
\* capture-line level, the programmable watchdog counter and the reset-arm
\* byte as they were.
C24_ResetFrame == [][C24_Step]_vars

\* a reset of a device with all TCR bits written, a capture recorded and
\* cycles counted
C24_Witness ==
    /\ last.op = "device_reset"
    /\ m_tcr = \h02
    /\ m_tsr = \h80
    /\ m_tcap_state
    /\ m_icr # 0
    /\ m_pcop_cnt = 6
    /\ m_counter = \hfffc

PCOPE == 2

C25_Step ==
    /\ last'.op = "copcr_w" =>
           /\ \A b \in {0, 1, 3} : BIT(m_copcr', b) = BIT(last'.data, b)
           /\ BIT(m_copcr', COPF) = BIT(m_copcr, COPF)
           /\ \A b \in 5 .. 7 : BIT(m_copcr', b) = 0
           /\ BIT(last'.data, PCOPE) = 1 => BIT(m_copcr', PCOPE) = 1
    /\ (last'.op # "device_reset" /\ BIT(m_copcr, PCOPE) = 1) =>
           BIT(m_copcr', PCOPE) = 1

\* C25: PCOPE (bit 2 of COPCR) is set-only: once set it stays set on every
\* step other than a device reset.  A COPCR write replaces CME and CM (bits
\* 3, 1, 0) with the written bits, leaves COPF (bit 4) as it was and keeps
\* bits 5..7 zero.
C25_PcopeSetOnly == [][C25_Step]_vars

\* a write with PCOPE clear and bits 4..7 set, to a register with PCOPE and
\* COPF set: PCOPE and COPF stay, CME and CM are taken from the data
C25_Witness ==
    /\ last.op = "copcr_w"
    /\ last.data = \hfb
    /\ m_copcr = \h1f

\* the 16-bit counter takes the value of the compare register at one of the
\* ticks of a cycle-accounting step of count cycles
CounterMeetsOcr(count) ==
    \E k \in 1 .. Ticks(count) : u16(m_counter + k) = m_ocr

\* C26: no compare match is missed: when the 16-bit counter takes the value
\* OCR at some tick of a cycle-accounting step, ticks after the wrap from
\* 0xFFFF to 0x0000 and OCR = 0x0000 included, and compare is not inhibited,
\* OCF is set by that step.
C26_NoCompareMatchMissed ==
    [][(/\ last'.op = "burn_cycles"
        /\ CounterMeetsOcr(last'.data)
        /\ ~m_inhibit_cmp) => BIT(m_tsr', OCF) = 1]_vars

(***************************************************************************)
(* Cycle accounting and resets on each device type, with the mask option   *)
(* cell programmed either way.                                             *)
(***************************************************************************)
MaxStepsNcop == 4

NcopBurn == {2 ^ 15, 2 ^ 16, 2 ^ 17}

InitNcop ==
    \E v \in Variants, o \in MaskOption :
        StartedAs([stage |-> "started", variant |-> v, rom_fff1 |-> o])

NcopNext ==
    \/ /\ Ready(MaxStepsNcop)
       /\ \E count \in NcopBurn : BurnCycles(count)
    \/ /\ Ready(MaxStepsNcop)
       /\ device_reset

SpecNcop == InitNcop /\ [][NcopNext]_vars

\* C27: the non-programmable watchdog forces a reset only when its enable
\* latch NCOPE is set: with the latch clear, as on the device types that do
\* not map the watchdog registers, no cycle-accounting step pulses the reset
\* line on behalf of the non-programmable watchdog.
C27_NcopOnlyWhenEnabled ==
    [][(last'.op = "burn_cycles" /\ m_ncope = 0) => ~NcopReset(events')]_vars

\* C28: in every state reached by TCR writes, timer register reads and
\* writes, capture-line events and cycle-accounting steps, the timer bit of
\* the pending-interrupt mask is set if and only if (TCR AND TSR AND 0xE0)
\* is non-zero.
C28_TimerPendingIffEnabledFlagSet ==
    TimerPending(m_pending_interrupts) <=> (And(And(m_tcr, m_tsr), \he0) # 0)

\* a TCR write that enables the interrupts finds TOF set by an earlier
\* rollover and makes the timer interrupt pending
C28_Witness ==
    /\ last.op = "tcr_w"
    /\ m_tcr = \he3
    /\ m_tsr = \h20
    /\ TimerPending(m_pending_interrupts)

\* C29: in every reachable state the timer status register has no bit set
\* outside ICF, OCF and TOF (0xE0), and the seen shadow is a subset of the
\* status register: (seen AND NOT status) = 0.
C29_SeenSubsetOfStatus ==
    /\ And(m_tsr, Not8(\he0)) = 0
    /\ And(m_tsr_seen, Not8(m_tsr)) = 0

\* TOF was seen by a status read and ICF was set after it
C29_Witness ==
    /\ m_tsr = \ha0
    /\ m_tsr_seen = \h20

====
